---------------------------- MODULE Spec2Model ----------------------------
(***************************************************************************)
(* CafeDS: a cluster of Node processes (src/cafeds/node.py) that elects a  *)
(* leader with the Bully algorithm, lets the leader sequence orders and    *)
(* delivers them in sequence order at every node, with a write-ahead log.  *)
(*                                                                         *)
(* Grain of atomicity: a section of code that runs under one of the node's *)
(* mutexes is one step; a handler that only touches unprotected fields is  *)
(* one step, except that the read-modify-write of the unprotected field    *)
(* `epoch` is split in a read and a write where two threads do it.         *)
(* Time is abstracted: a timeout is a step that may happen whenever the    *)
(* event it waits for has not happened.  All nodes are on one subnet, so   *)
(* the source ip of a datagram identifies the sending node.                *)
(***************************************************************************)
EXTENDS Naturals, Integers, Sequences, FiniteSets, TLC

\* ------------------------------------------------------------------ bounds
NumNodes == 3
MaxSeq == 3
NumUuids == 3
MaxEpoch == 2
MaxUdp == 2
MaxChan == 2
MaxStarts == 3
ElectionThreads == 1
MaxOrders == 2
MaxTasks == 2
MaxNow == 4
MaxWire == 1

Nodes == 1..NumNodes
Seqs == 1..MaxSeq
Uuids == 1..NumUuids
NoNode == 0
Threads == 1..(ElectionThreads + 1)
Pool == 1..ElectionThreads

\* The room of a TCP connection, in records: enough for every order of the
\* model, its resends and MaxChan retries, so that a send blocks only where
\* requests pile up without end.
ChanCap == MaxChan + MaxSeq + NumUuids

\* ------------------------------------------------------------------ state
VARIABLES
    status,            \* "off" | "probe" | "run" | "stopped"
    role,              \* "leader" | "follower"
    epoch,
    last_seq,
    history,           \* seq -> ORDER record (NoRec where undefined)
    leader,            \* LeaderInfo or NoLeader
    expected_seq,
    buffer,            \* seq -> ORDER record (NoRec where undefined)
    delivered_seqs,
    last_resend_ts,    \* 0: at least 0.5 s ago (or never), 1: less than 0.5 s ago
    seen_order_uuids,
    wal,               \* the WAL file of the node: survives the process
    sink,              \* records emitted by _deliver in this process lifetime
    tcp_server,        \* the node holds a TCPServer object
    udp_disc,          \* the node holds the discovery-port socket
    tcp_client,        \* the node holds a TCPClient object
    tcp_connected,
    sock,              \* TCPClient.sock: the node it is connected to, or NoNode
    clients,           \* TCPServer.clients, each named by the connecting node
    c2s,               \* bytes in flight on the connection of client f, to the server
    s2c,               \* bytes in flight on the connection of client f, to the client
    hnd,               \* the server's reader thread of the connection of client f
    loc,               \* the thread that called submit_order on a leader
    peers,
    udp,               \* datagrams in flight
    lossy,             \* whether the network loses datagrams
    in_election,
    in_election_since, \* 0: at least 2 s ago, 1: less than 2 s ago
    answer_event,
    coordinator_event,
    coordinator_msg,
    elect,             \* the node's election threads
    lsn,               \* the UDP listener thread: the epoch it is about to store
    used_uuids,        \* uuids drawn so far by submit_order
    client_uuids,      \* uuids sent in a NEW_ORDER so far
    starts,            \* number of process starts so far
    recovered,         \* the seqs _recover_from_wal read from the WAL at the start
    prev,              \* what the previous process of the node ended with
    dup,               \* the second instance started with the id of the node
    call,              \* a function called on its own: its arguments and result
    dlv,               \* the thread inside the delivery section of _process_order
    lk,                \* the tasks of one node by the locks they hold
    now,               \* time.time(), in units of LEADER_TIMEOUT
    wire,              \* the lines of a foreign sender a connection has received
    tc                 \* the TCPClient of one follower and the threads that use it

vars == << status, role, epoch, last_seq, history, leader, expected_seq, buffer,
           delivered_seqs, last_resend_ts, seen_order_uuids, wal, sink,
           tcp_server, udp_disc, tcp_client, tcp_connected, sock, clients,
           c2s, s2c, hnd, loc, peers, udp, lossy, in_election, in_election_since,
           answer_event, coordinator_event, coordinator_msg, elect, lsn,
           used_uuids, client_uuids, starts, recovered,
           prev, dup, call, dlv, lk, now, wire, tc >>

\* Groups of variables, for the UNCHANGED clauses.
envV == << now, wire, tc >>
procV == << status, starts, recovered, prev, dup, call, dlv, lk, envV >>
leadV == << role, epoch, leader >>
resV  == << tcp_server, udp_disc, tcp_client >>
connV == << tcp_connected, sock, clients >>
thrV  == << hnd, loc >>
netV  == << peers, udp, lossy >>
elV   == << in_election, in_election_since, answer_event, coordinator_event,
            coordinator_msg, elect, lsn >>
delivV == << expected_seq, buffer, delivered_seqs, last_resend_ts, wal, sink >>

\* ---------------------------------------------------------------- records
NoRec == [seq |-> 0, uuid |-> 0, epoch |-> 0, lid |-> 0]
NoIp == << 0, 0, 0, 0 >>
NoLeader ==
    [leader_id |-> 0, epoch |-> 0, last_seq |-> 0, leader_ip |-> NoIp,
     last_seen_ts |-> 0]
EmptyMap == [s \in Seqs |-> NoRec]

order_msg(leader_id, e, seq, order_uuid) ==
    [seq |-> seq, uuid |-> order_uuid, epoch |-> e, lid |-> leader_id]

new_order(order_uuid) == [type |-> "NEW_ORDER", uuid |-> order_uuid, from_seq |-> 0]
resend_request(from_seq) == [type |-> "RESEND_REQUEST", uuid |-> 0, from_seq |-> from_seq]

\* The address the datagrams of node n come from: the nodes of a cluster are
\* hosts of one LAN.
IpOf(n) == << 10, 0, 0, n >>

\* The node a connection to the address ip reaches.
HostAt(ip) == ip[4]

LeaderInfo(lid, e, ls) ==
    [leader_id |-> lid, epoch |-> e, last_seq |-> ls, leader_ip |-> IpOf(lid),
     last_seen_ts |-> now]

Max(a, b) == IF a >= b THEN a ELSE b
Keys(m) == {s \in Seqs : m[s] # NoRec}
MaxKey(m) == IF Keys(m) = {} THEN 0 ELSE CHOOSE s \in Keys(m) : \A t \in Keys(m) : t <= s
Range(q) == {q[i] : i \in 1..Len(q)}

\* The nodes that run.
Live == {n \in Nodes : status[n] = "run"}


\* ------------------------------------------------------- order processing
\* The flush loop of _process_order: pop the record at expected_seq from the
\* buffer while there is one; emit it unless its seq is already delivered.
RECURSIVE Drain(_, _, _, _)
Drain(exp, buf, del, out) ==
    IF exp \in Seqs /\ buf[exp] # NoRec
    THEN IF exp \in del
         THEN Drain(exp + 1, [buf EXCEPT ![exp] = NoRec], del, out)
         ELSE Drain(exp + 1, [buf EXCEPT ![exp] = NoRec], del \cup {exp},
                    Append(out, buf[exp]))
    ELSE [expected_seq |-> exp, buffer |-> buf, delivered_seqs |-> del, out |-> out]

\* Whether the gap branch of _process_order sends a RESEND_REQUEST.
SendsResend(n) == tcp_client[n] /\ tcp_connected[n] /\ last_resend_ts[n] = 0

\* _process_order without its dedup test: an ORDER below expected_seq is
\* delivered like the expected one.
ProcessOrderResultNoDedup(n, msg) ==
    LET seq == msg.seq
        h   == [history[n] EXCEPT ![seq] = msg]
        ls  == Max(last_seq[n], seq)
        base == [history |-> h, last_seq |-> ls,
                 expected_seq |-> expected_seq[n], buffer |-> buffer[n],
                 delivered_seqs |-> delivered_seqs[n], out |-> << >>,
                 resend |-> FALSE]
    IN  IF seq > expected_seq[n]
        THEN [base EXCEPT !.buffer = [@ EXCEPT ![seq] = msg],
                          !.resend = SendsResend(n)]
        ELSE LET d == Drain(seq + 1, buffer[n], delivered_seqs[n] \cup {seq}, << msg >>)
             IN  [base EXCEPT !.expected_seq = d.expected_seq,
                              !.buffer = d.buffer,
                              !.delivered_seqs = d.delivered_seqs,
                              !.out = d.out]

\* _process_order(msg) on node n, as the values it leaves behind.  `out` is
\* the sequence of records handed to _deliver, each followed by its WAL append.
ProcessOrderResult(n, msg) ==
    LET seq == msg.seq
        h   == [history[n] EXCEPT ![seq] = msg]
        ls  == Max(last_seq[n], seq)
        base == [history |-> h, last_seq |-> ls,
                 expected_seq |-> expected_seq[n], buffer |-> buffer[n],
                 delivered_seqs |-> delivered_seqs[n], out |-> << >>,
                 resend |-> FALSE]
    IN  IF seq \in delivered_seqs[n] \/ seq < expected_seq[n]
        THEN [base EXCEPT !.delivered_seqs = @ \cup {seq}]
        ELSE IF seq > expected_seq[n]
        THEN [base EXCEPT !.buffer = [@ EXCEPT ![seq] = msg],
                          !.resend = SendsResend(n)]
        ELSE LET d == Drain(seq + 1, buffer[n], delivered_seqs[n] \cup {seq}, << msg >>)
             IN  [base EXCEPT !.expected_seq = d.expected_seq,
                              !.buffer = d.buffer,
                              !.delivered_seqs = d.delivered_seqs,
                              !.out = d.out]

\* TCPClient.send: nothing is sent without a socket; what is written to a
\* connection the server has closed is lost.
ClientSend(f, m) ==
    IF sock[f] # NoNode /\ f \in clients[sock[f]]
    THEN [c2s EXCEPT ![f] = Append(@, m)]
    ELSE c2s

\* _process_order as a step of node n: sets every variable the method writes.
ProcessOrder(n, msg) ==
    LET r == ProcessOrderResult(n, msg)
    IN  /\ r.resend => Len(c2s[n]) < ChanCap
        /\ history' = [history EXCEPT ![n] = r.history]
        /\ last_seq' = [last_seq EXCEPT ![n] = r.last_seq]
        /\ expected_seq' = [expected_seq EXCEPT ![n] = r.expected_seq]
        /\ buffer' = [buffer EXCEPT ![n] = r.buffer]
        /\ delivered_seqs' = [delivered_seqs EXCEPT ![n] = r.delivered_seqs]
        /\ sink' = [sink EXCEPT ![n] = @ \o r.out]
        /\ wal' = [wal EXCEPT ![n] = @ \o r.out]
        /\ last_resend_ts' = [last_resend_ts EXCEPT ![n] = IF r.resend THEN 1 ELSE @]
        /\ c2s' = IF r.resend THEN ClientSend(n, resend_request(expected_seq[n])) ELSE c2s

\* No thread of the node is inside the delivery section of _process_order.
NoDelivery == [pc |-> "idle", rec |-> NoRec, by |-> "none", conn |-> NoNode]

\* The drain loop of _process_order from expected_seq = exp up to its next
\* _deliver: the buffered records that were delivered before are popped and
\* skipped; rec is the record popped for delivery, if there is one.
RECURSIVE NextBuffered(_, _, _)
NextBuffered(exp, buf, del) ==
    IF exp \in Seqs /\ buf[exp] # NoRec
    THEN IF exp \in del
         THEN NextBuffered(exp + 1, [buf EXCEPT ![exp] = NoRec], del)
         ELSE [expected_seq |-> exp, buffer |-> [buf EXCEPT ![exp] = NoRec],
               rec |-> buf[exp]]
    ELSE [expected_seq |-> exp, buffer |-> buf, rec |-> NoRec]

\* _process_order(msg) on node n, step by step, for the thread `by` (of the
\* connection conn): up to the first _deliver.  The dedup and the gap branch
\* end the method; in the branch seq == expected_seq the thread goes on with
\* _deliver under delivery_lock.
EnterProcessOrder(n, msg, by, conn) ==
    /\ dlv[n].pc = "idle"
    /\ history' = [history EXCEPT ![n][msg.seq] = msg]
    /\ last_seq' = [last_seq EXCEPT ![n] = Max(@, msg.seq)]
    /\ IF msg.seq \in delivered_seqs[n] \/ msg.seq < expected_seq[n]
       THEN /\ delivered_seqs' = [delivered_seqs EXCEPT ![n] = @ \cup {msg.seq}]
            /\ UNCHANGED << expected_seq, buffer, last_resend_ts, c2s, dlv >>
       ELSE IF msg.seq > expected_seq[n]
       THEN /\ SendsResend(n) => Len(c2s[n]) < ChanCap
            /\ buffer' = [buffer EXCEPT ![n][msg.seq] = msg]
            /\ last_resend_ts' = [last_resend_ts EXCEPT ![n] =
                                     IF SendsResend(n) THEN 1 ELSE @]
            /\ c2s' = IF SendsResend(n)
                      THEN ClientSend(n, resend_request(expected_seq[n]))
                      ELSE c2s
            /\ UNCHANGED << expected_seq, delivered_seqs, dlv >>
       ELSE /\ dlv' = [dlv EXCEPT ![n] =
                         [pc |-> "deliver", rec |-> msg, by |-> by, conn |-> conn]]
            /\ UNCHANGED << expected_seq, buffer, delivered_seqs, last_resend_ts, c2s >>
    /\ UNCHANGED << wal, sink >>

\* self._deliver(msg): the record is emitted to the sink.
Deliver(n) ==
    /\ status[n] \in {"run", "stopped"}
    /\ dlv[n].pc = "deliver"
    /\ sink' = [sink EXCEPT ![n] = Append(@, dlv[n].rec)]
    /\ dlv' = [dlv EXCEPT ![n].pc = "wal"]
    /\ UNCHANGED << status, starts, recovered, prev, dup, call, lk, envV, leadV, resV, connV,
                    thrV, netV, elV, expected_seq, buffer, delivered_seqs,
                    last_resend_ts, wal, last_seq, history, seen_order_uuids, c2s,
                    s2c, used_uuids, client_uuids >>

\* self._append_to_wal(msg) after _deliver, delivered_seqs.add, expected_seq
\* += 1 and the drain loop up to its next _deliver or its end.
AppendToWal(n) ==
    /\ status[n] \in {"run", "stopped"}
    /\ dlv[n].pc = "wal"
    /\ wal' = [wal EXCEPT ![n] = Append(@, dlv[n].rec)]
    /\ LET del == delivered_seqs[n] \cup {dlv[n].rec.seq}
           nb  == NextBuffered(expected_seq[n] + 1, buffer[n], del)
       IN  /\ delivered_seqs' = [delivered_seqs EXCEPT ![n] = del]
           /\ expected_seq' = [expected_seq EXCEPT ![n] = nb.expected_seq]
           /\ buffer' = [buffer EXCEPT ![n] = nb.buffer]
           /\ dlv' = [dlv EXCEPT ![n] =
                        IF nb.rec = NoRec THEN NoDelivery
                        ELSE [@ EXCEPT !.pc = "deliver", !.rec = nb.rec]]
    /\ UNCHANGED << status, starts, recovered, prev, dup, call, lk, envV, leadV, resV, connV,
                    thrV, netV, elV, last_resend_ts, sink, last_seq, history,
                    seen_order_uuids, c2s, s2c, used_uuids, client_uuids >>

\* The thread `by` (of the connection conn) of node n is back from
\* _process_order.
Returned(n, by, conn) == ~(dlv[n].by = by /\ dlv[n].conn = conn)

\* The 0.5 s rate limit of RESEND_REQUEST runs out.
ResendWindowElapses(n) ==
    /\ status[n] = "run"
    /\ last_resend_ts[n] = 1
    /\ last_resend_ts' = [last_resend_ts EXCEPT ![n] = 0]
    /\ UNCHANGED << procV, leadV, resV, connV, thrV, netV, elV, last_seq, history,
                    expected_seq, buffer, delivered_seqs, seen_order_uuids, wal,
                    sink, c2s, s2c, used_uuids, client_uuids >>

\* ------------------------------------------------------------ TCP follower
\* The follower's reader thread takes the next ORDER off its connection.
FollowerOnMsg(f) ==
    /\ status[f] = "run"
    /\ sock[f] # NoNode
    /\ s2c[f] # << >>
    /\ ProcessOrder(f, Head(s2c[f]))
    /\ s2c' = [s2c EXCEPT ![f] = Tail(@)]
    /\ UNCHANGED << procV, leadV, resV, connV, thrV, netV, elV, seen_order_uuids,
                    used_uuids, client_uuids >>

\* The follower's reader thread takes the next ORDER off its connection, step
\* by step: _process_order up to its first _deliver.
FollowerEntersOrder(f) ==
    /\ status[f] = "run"
    /\ sock[f] # NoNode
    /\ s2c[f] # << >>
    /\ EnterProcessOrder(f, Head(s2c[f]), "reader", NoNode)
    /\ s2c' = [s2c EXCEPT ![f] = Tail(@)]
    /\ UNCHANGED << status, starts, recovered, prev, dup, call, lk, envV, leadV, resV, connV,
                    thrV, netV, elV, seen_order_uuids, used_uuids, client_uuids >>

\* TCPClient.close, and the server's reader of that connection seeing the end.
CloseSock(f) ==
    /\ sock' = [sock EXCEPT ![f] = NoNode]
    /\ clients' = [s \in Nodes |-> IF s = sock[f] THEN clients[s] \ {f} ELSE clients[s]]
    /\ s2c' = [s2c EXCEPT ![f] = << >>]

\* The follower's reader thread sees the connection closed by the server:
\* on_log("TCP reader stopped (disconnected)") and TCPClient.close.
FollowerReaderStopped(f) ==
    /\ status[f] \in {"run", "stopped"}
    /\ sock[f] # NoNode
    /\ f \notin clients[sock[f]]
    /\ tcp_connected' = [tcp_connected EXCEPT ![f] = FALSE]
    /\ CloseSock(f)
    /\ c2s' = [c2s EXCEPT ![f] = << >>]
    /\ UNCHANGED << procV, leadV, resV, thrV, netV, elV, delivV, last_seq, history,
                    seen_order_uuids, used_uuids, client_uuids >>

\* Whether a connect to node s succeeds: s is listening.
Listening(s) == s \in Nodes /\ status[s] = "run" /\ tcp_server[s]

\* _ensure_tcp_connected as a step of node f: sets tcp_connected, sock,
\* clients, c2s and s2c.
EnsureTcpConnected(f, ldr) ==
    LET host == HostAt(ldr.leader_ip)
        skip == ldr = NoLeader \/ ~tcp_client[f] \/ tcp_connected[f]
        ok   == Listening(host) /\ host # f
    IN  IF skip
        THEN UNCHANGED << tcp_connected, sock, clients, c2s, s2c >>
        ELSE /\ tcp_connected' = [tcp_connected EXCEPT ![f] = ok]
             /\ sock' = [sock EXCEPT ![f] = IF ok THEN host ELSE NoNode]
             /\ clients' = [s \in Nodes |->
                              IF ok /\ s = host THEN clients[s] \cup {f}
                              ELSE clients[s] \ {f}]
             /\ s2c' = [s2c EXCEPT ![f] = << >>]
             /\ c2s' = [c2s EXCEPT ![f] =
                          IF ok THEN << resend_request(expected_seq[f]) >> ELSE << >>]


\* ------------------------------------------------------------- TCP leader
NoThread == [pc |-> "idle", srv |-> NoNode, rec |-> NoRec]

\* The sequence number the leader allocates next (under history_lock).
AllocSeq(n) == Max(last_seq[n], MaxKey(history[n])) + 1

\* The uuid the next uuid4() call returns: one never drawn before.
FreshUuid == CHOOSE u \in Uuids \ used_uuids : \A v \in Uuids \ used_uuids : u <= v

\* The records of history h with seq in a..b, in ascending order.
RECURSIVE HistoryFrom(_, _, _)
HistoryFrom(h, a, b) ==
    IF a > b THEN << >>
    ELSE IF a \in Seqs /\ h[a] # NoRec THEN << h[a] >> \o HistoryFrom(h, a + 1, b)
    ELSE HistoryFrom(h, a + 1, b)

\* TCPServer.broadcast of node s: the record goes to every accepted connection.
Broadcast(s, om) ==
    /\ \A f \in clients[s] : Len(s2c[f]) < ChanCap
    /\ s2c' = [f \in Nodes |-> IF f \in clients[s] THEN Append(s2c[f], om) ELSE s2c[f]]

\* on_msg of the leader, NEW_ORDER, up to the WAL append: deduplicate by uuid,
\* allocate the sequence number, record the ORDER in history, append it to the WAL.
LeaderOnNewOrder(s, f) ==
    /\ status[s] \in {"run", "stopped"}
    /\ f \in clients[s]
    /\ hnd[f].pc = "idle"
    /\ c2s[f] # << >>
    /\ Head(c2s[f]).type = "NEW_ORDER"
    /\ c2s' = [c2s EXCEPT ![f] = Tail(@)]
    /\ LET u == Head(c2s[f]).uuid
           seq == AllocSeq(s)
           om == order_msg(s, epoch[s], seq, u)
       IN  IF u \in seen_order_uuids[s]
           THEN UNCHANGED << seen_order_uuids, last_seq, history, wal, hnd >>
           ELSE /\ seq <= MaxSeq
                /\ seen_order_uuids' = [seen_order_uuids EXCEPT ![s] = @ \cup {u}]
                /\ last_seq' = [last_seq EXCEPT ![s] = seq]
                /\ history' = [history EXCEPT ![s][seq] = om]
                /\ wal' = [wal EXCEPT ![s] = Append(@, om)]
                /\ hnd' = [hnd EXCEPT ![f] = [pc |-> "process", srv |-> s, rec |-> om]]
    /\ UNCHANGED << procV, leadV, resV, connV, netV, elV, expected_seq, buffer,
                    delivered_seqs, last_resend_ts, sink, s2c, loc, used_uuids,
                    client_uuids >>

\* on_msg of the leader, NEW_ORDER, continued: self._process_order(om).
LeaderProcessOrder(f) ==
    /\ hnd[f].pc = "process"
    /\ status[hnd[f].srv] \in {"run", "stopped"}
    /\ ProcessOrder(hnd[f].srv, hnd[f].rec)
    /\ hnd' = [hnd EXCEPT ![f].pc = "bcast"]
    /\ UNCHANGED << procV, leadV, resV, connV, netV, elV, seen_order_uuids, s2c,
                    loc, used_uuids, client_uuids >>

\* self._process_order(om) of on_msg, step by step: up to its first _deliver.
LeaderEntersOrder(f) ==
    /\ hnd[f].pc = "process"
    /\ status[hnd[f].srv] \in {"run", "stopped"}
    /\ EnterProcessOrder(hnd[f].srv, hnd[f].rec, "hnd", f)
    /\ hnd' = [hnd EXCEPT ![f].pc = "bcast"]
    /\ UNCHANGED << status, starts, recovered, prev, dup, call, lk, envV, leadV, resV, connV,
                    netV, elV, seen_order_uuids, s2c, loc, used_uuids, client_uuids >>

\* The end of on_msg with the ORDER sent on the asking connection only.
LeaderBroadcastToSender(f) ==
    /\ hnd[f].pc = "bcast"
    /\ status[hnd[f].srv] \in {"run", "stopped"}
    /\ Len(s2c[f]) < ChanCap
    /\ s2c' = [s2c EXCEPT ![f] = IF f \in clients[hnd[f].srv]
                                  THEN Append(@, hnd[f].rec) ELSE @]
    /\ hnd' = [hnd EXCEPT ![f] = NoThread]
    /\ UNCHANGED << procV, leadV, resV, connV, netV, elV, delivV, history, last_seq,
                    seen_order_uuids, c2s, loc, used_uuids, client_uuids >>

\* on_msg of the leader, NEW_ORDER, the end: assert tcp_server is not None (the
\* handler dies there after a demotion), then broadcast.
LeaderBroadcast(f) ==
    /\ hnd[f].pc = "bcast"
    /\ status[hnd[f].srv] \in {"run", "stopped"}
    /\ IF tcp_server[hnd[f].srv]
       THEN Broadcast(hnd[f].srv, hnd[f].rec)
       ELSE UNCHANGED s2c
    /\ hnd' = [hnd EXCEPT ![f] = NoThread]
    /\ UNCHANGED << procV, leadV, resV, connV, netV, elV, delivV, history, last_seq,
                    seen_order_uuids, c2s, loc, used_uuids, client_uuids >>

\* The RESEND_REQUEST handler with its range one off: the history records
\* above from_seq.
LeaderOnResendRequestOffByOne(s, f) ==
    /\ status[s] \in {"run", "stopped"}
    /\ f \in clients[s]
    /\ hnd[f].pc = "idle"
    /\ c2s[f] # << >>
    /\ Head(c2s[f]).type = "RESEND_REQUEST"
    /\ LET recs == HistoryFrom(history[s], Head(c2s[f]).from_seq + 1, MaxKey(history[s]))
       IN  /\ Len(s2c[f]) + Len(recs) <= ChanCap
           /\ s2c' = [s2c EXCEPT ![f] = @ \o recs]
    /\ c2s' = [c2s EXCEPT ![f] = Tail(@)]
    /\ UNCHANGED << procV, leadV, resV, connV, netV, elV, delivV, history, last_seq,
                    seen_order_uuids, thrV, used_uuids, client_uuids >>

\* on_msg of the leader, RESEND_REQUEST: every history record from from_seq on,
\* in ascending order, on the asking connection.
LeaderOnResendRequest(s, f) ==
    /\ status[s] \in {"run", "stopped"}
    /\ f \in clients[s]
    /\ hnd[f].pc = "idle"
    /\ c2s[f] # << >>
    /\ Head(c2s[f]).type = "RESEND_REQUEST"
    /\ LET recs == HistoryFrom(history[s], Head(c2s[f]).from_seq, MaxKey(history[s]))
       IN  /\ Len(s2c[f]) + Len(recs) <= ChanCap
           /\ s2c' = [s2c EXCEPT ![f] = @ \o recs]
    /\ c2s' = [c2s EXCEPT ![f] = Tail(@)]
    /\ UNCHANGED << procV, leadV, resV, connV, netV, elV, delivV, history, last_seq,
                    seen_order_uuids, thrV, used_uuids, client_uuids >>

\* submit_order on a leader, the section under history_lock: a fresh uuid, the
\* next sequence number, the ORDER recorded in history.
SubmitOrderLeader(n) ==
    /\ status[n] = "run"
    /\ role[n] = "leader"
    /\ loc[n].pc = "idle"
    /\ used_uuids # Uuids
    /\ AllocSeq(n) <= MaxSeq
    /\ LET om == order_msg(n, epoch[n], AllocSeq(n), FreshUuid)
       IN  /\ last_seq' = [last_seq EXCEPT ![n] = om.seq]
           /\ history' = [history EXCEPT ![n][om.seq] = om]
           /\ loc' = [loc EXCEPT ![n] = [pc |-> "process", srv |-> n, rec |-> om]]
    /\ used_uuids' = used_uuids \cup {FreshUuid}
    /\ UNCHANGED << procV, leadV, resV, connV, netV, elV, delivV, seen_order_uuids,
                    c2s, s2c, hnd, client_uuids >>

\* submit_order on a leader, continued: self._process_order(om).
SubmitOrderProcess(n) ==
    /\ loc[n].pc = "process"
    /\ status[n] \in {"run", "stopped"}
    /\ ProcessOrder(n, loc[n].rec)
    /\ loc' = [loc EXCEPT ![n].pc = "bcast"]
    /\ UNCHANGED << procV, leadV, resV, connV, netV, elV, seen_order_uuids, s2c,
                    hnd, used_uuids, client_uuids >>

\* self._process_order(om) of submit_order, step by step: up to its first
\* _deliver.
SubmitOrderEnters(n) ==
    /\ loc[n].pc = "process"
    /\ status[n] \in {"run", "stopped"}
    /\ EnterProcessOrder(n, loc[n].rec, "loc", NoNode)
    /\ loc' = [loc EXCEPT ![n].pc = "bcast"]
    /\ UNCHANGED << status, starts, recovered, prev, dup, call, lk, envV, leadV, resV, connV,
                    netV, elV, seen_order_uuids, s2c, hnd, used_uuids, client_uuids >>

\* submit_order on a leader, the end: broadcast if there is a tcp_server.
SubmitOrderBroadcast(n) ==
    /\ loc[n].pc = "bcast"
    /\ status[n] \in {"run", "stopped"}
    /\ IF tcp_server[n] THEN Broadcast(n, loc[n].rec) ELSE UNCHANGED s2c
    /\ loc' = [loc EXCEPT ![n] = NoThread]
    /\ UNCHANGED << procV, leadV, resV, connV, netV, elV, delivV, history, last_seq,
                    seen_order_uuids, c2s, hnd, used_uuids, client_uuids >>

\* submit_order on a follower: NEW_ORDER with a fresh uuid to the leader.
SubmitOrderFollower(f) ==
    /\ status[f] = "run"
    /\ role[f] # "leader"
    /\ tcp_client[f]
    /\ tcp_connected[f]
    /\ used_uuids # Uuids
    /\ Len(c2s[f]) < ChanCap
    /\ c2s' = ClientSend(f, new_order(FreshUuid))
    /\ used_uuids' = used_uuids \cup {FreshUuid}
    /\ client_uuids' = client_uuids \cup {FreshUuid}
    /\ UNCHANGED << procV, leadV, resV, connV, netV, elV, delivV, history, last_seq,
                    seen_order_uuids, s2c, thrV >>

\* A client retry: the NEW_ORDER of an order submitted before is sent again.
RetryNewOrder(f, u) ==
    /\ status[f] = "run"
    /\ role[f] # "leader"
    /\ tcp_client[f]
    /\ tcp_connected[f]
    /\ u \in client_uuids
    /\ Len(c2s[f]) < MaxChan
    /\ c2s' = ClientSend(f, new_order(u))
    /\ UNCHANGED << procV, leadV, resV, connV, netV, elV, delivV, history, last_seq,
                    seen_order_uuids, s2c, thrV, used_uuids, client_uuids >>


\* -------------------------------------------------------------------- UDP
Msg(type, src, dst, e, ls, cl) ==
    [type |-> type, src |-> src, dst |-> dst, epoch |-> e, last_seq |-> ls, cluster |-> cl]

who_is_leader(src, dst) == Msg("WHO_IS_LEADER", src, dst, 0, 0, {})
i_am_leader(src, dst, e, ls) == Msg("I_AM_LEADER", src, dst, e, ls, {})
leader_alive(src, dst, e, ls, cl) == Msg("LEADER_ALIVE", src, dst, e, ls, cl)
election(src, dst, e) == Msg("ELECTION", src, dst, e, 0, {})
answer(src, dst, e) == Msg("ANSWER", src, dst, e, 0, {})
coordinator(src, dst, e, ls) == Msg("COORDINATOR", src, dst, e, ls, {})
NoMsg == Msg("NONE", 0, 0, 0, 0, {})

\* A COORDINATOR datagram that carries nothing but its type, as a foreign
\* sender may write it: no leader_id, no epoch, no last_seq (0 where absent).
bare_coordinator(dst) == Msg("COORDINATOR", 0, dst, 0, 0, {})

\* "leader_id" in msg
HasLeaderId(m) == m.src # 0

\* The address of a sender that is no node of the cluster.
ForeignIp == << 10, 0, 0, 0 >>

\* The datagrams of `out` sent to a node that has a process to receive them.
Deliverable(out) == {m \in out : status[m.dst] \in {"probe", "run"}}

\* send_udp of the datagrams `out` while the listener takes `taken` off the
\* network: UDP is unreliable, on a lossy network any of the datagrams sent
\* may be lost.
UdpStep(taken, out) ==
    \E S \in (IF lossy THEN SUBSET out ELSE {Deliverable(out)}) :
        /\ Cardinality((udp \ taken) \cup S) <= MaxUdp
        /\ udp' = (udp \ taken) \cup S

\* _register_peer: the own id is never registered.
Registered(n, ps) == peers[n] \cup (ps \ {n})

\* The nodes that hold a socket on the discovery port.
DiscoveryHolders(n) == {p \in Nodes \ {n} : status[p] \in {"probe", "run"} /\ udp_disc[p]}

\* _close_tcp_client: the flag is cleared and the client socket closed.
CloseTcpClient(f) ==
    /\ tcp_connected' = [tcp_connected EXCEPT ![f] = FALSE]
    /\ sock' = [sock EXCEPT ![f] = NoNode]
    /\ clients' = [s \in Nodes |-> clients[s] \ {f}]
    /\ s2c' = [s2c EXCEPT ![f] = << >>]
    /\ c2s' = [c2s EXCEPT ![f] = << >>]

\* leader_ip.startswith("127.")
IsLoopback(ip) == ip[1] = 127

\* _is_better_leader without its preference for a non-loopback address.
IsBetterLeaderNoLoopback(cur, new) ==
    IF cur = NoLeader THEN TRUE
    ELSE IF new.epoch # cur.epoch THEN new.epoch > cur.epoch
    ELSE IF new.leader_id # cur.leader_id THEN new.leader_id > cur.leader_id
    ELSE IF new.last_seq # cur.last_seq THEN new.last_seq > cur.last_seq
    ELSE FALSE

\* _is_better_leader(new) against the current LeaderInfo cur.
IsBetterLeader(cur, new) ==
    IF cur = NoLeader THEN TRUE
    ELSE IF new.epoch # cur.epoch THEN new.epoch > cur.epoch
    ELSE IF new.leader_id # cur.leader_id THEN new.leader_id > cur.leader_id
    ELSE IF IsLoopback(cur.leader_ip) /\ ~IsLoopback(new.leader_ip) THEN TRUE
    ELSE IF ~IsLoopback(cur.leader_ip) /\ IsLoopback(new.leader_ip) THEN FALSE
    ELSE IF new.last_seq # cur.last_seq THEN new.last_seq > cur.last_seq
    ELSE FALSE

\* No function is called on its own.
NoCall == [cur |-> NoLeader, new |-> NoLeader, ret |-> FALSE, done |-> FALSE]

\* The call of _is_better_leader(new) on a node whose self.leader is cur.
CallIsBetterLeader ==
    /\ call # NoCall
    /\ ~call.done
    /\ call' = [call EXCEPT !.ret = IsBetterLeader(call.cur, call.new), !.done = TRUE]
    /\ UNCHANGED << status, starts, recovered, prev, dup, dlv, lk, envV, leadV, resV, connV,
                    thrV, netV, elV, delivV, last_seq, history, seen_order_uuids, c2s, s2c,
                    used_uuids, client_uuids >>

\* ------------------------------------------------------------------- locks
\* The mutexes of a node (election, history, delivery, peers, tcp,
\* seen_uuids), TCPServer.clients_lock, the lock of a ClientConn and the lock
\* of the TCPClient.
NodeLocks == {"election", "history", "delivery", "peers", "tcp", "seen_uuids"}
Locks == NodeLocks \cup {"clients", "conn", "client"}

\* The tasks of one node that run at the same time.
Tasks == 1..MaxTasks

Acq(l) == [op |-> "acquire", lock |-> l]
Rel(l) == [op |-> "release", lock |-> l]
SocketSend == [op |-> "send", lock |-> "none"]
FileWrite == [op |-> "write", lock |-> "none"]

\* The lock operations, socket sends and file writes of the methods that take
\* a lock, in program order.
get_peer_ids == << Acq("peers"), Rel("peers") >>
broadcast_to_all_peers ==
    get_peer_ids \o << Acq("peers"), Rel("peers"), SocketSend >>
close_tcp_client == << Acq("tcp"), Rel("tcp"), Acq("client"), Rel("client") >>
client_send == << Acq("client"), SocketSend, Rel("client") >>
conn_send == << Acq("conn"), SocketSend, Rel("conn") >>
server_broadcast == << Acq("clients"), Rel("clients") >> \o conn_send
process_order_gap ==
    << Acq("history"), Rel("history"), Acq("delivery") >> \o client_send
        \o << Rel("delivery") >>
process_order_deliver ==
    << Acq("history"), Rel("history"), Acq("delivery"), FileWrite, Rel("delivery") >>
promote_to_leader ==
    close_tcp_client
        \o << Acq("history"), Acq("delivery"), Rel("delivery"), Rel("history") >>
        \o broadcast_to_all_peers

Program ==
    [register_peer |-> << Acq("peers"), Rel("peers") >>,
     send_to_node |-> << Acq("peers"), Rel("peers"), SocketSend >>,
     safe_start_election |-> << Acq("election"), Rel("election") >>,
     follower_on_msg_gap |-> process_order_gap,
     follower_on_msg |-> process_order_deliver,
     on_msg_new_order |->
         << Acq("seen_uuids"), Rel("seen_uuids"), Acq("history"), Rel("history"),
            FileWrite >> \o process_order_deliver \o server_broadcast,
     on_msg_resend_request |->
         << Acq("history") >> \o conn_send \o << Rel("history") >>,
     leader_heartbeat_loop |->
         << Acq("history"), Rel("history"), Acq("peers"), Rel("peers") >>
             \o broadcast_to_all_peers,
     ensure_tcp_connected |->
         << Acq("tcp"), Rel("tcp"), Acq("tcp"), Rel("tcp") >> \o client_send,
     submit_order_leader |->
         << Acq("history"), Rel("history") >> \o process_order_deliver
             \o server_broadcast,
     submit_order_follower |-> << Acq("tcp"), Rel("tcp") >> \o client_send,
     bully_election |->
         promote_to_leader \o << Acq("election"), Rel("election") >>,
     recover_from_wal |-> << Acq("delivery"), Rel("delivery") >>,
     on_log |-> << Acq("tcp"), Rel("tcp") >>]

\* A task that runs none of these methods.
NoTask == [prog |-> "none", pc |-> 0, held |-> << >>]

\* The sockets one TCPClient creates, one per connect().
MaxConns == 2
Sockets == 1..MaxConns

\* A reader thread of the TCPClient that was never started.
NoReader == [pc |-> "none", on |-> 0]

\* TCPClient() of a follower together with Node.tcp_connected: no socket, no
\* reader thread, nobody inside _ensure_tcp_connected or _close_tcp_client.
NoClient ==
    [tcp_connected |-> FALSE, sock |-> 0, made |-> 0, closed |-> {}, ended |-> {},
     reader |-> [s \in Sockets |-> NoReader], connect |-> "idle", closing |-> "idle"]

\* The operation task t is at.
Op(t) == Program[lk[t].prog][lk[t].pc]

\* Task t calls method p.
TaskCalls(t, p) ==
    /\ lk[t] = NoTask
    /\ lk' = [lk EXCEPT ![t] = [prog |-> p, pc |-> 1, held |-> << >>]]

\* Lock.acquire: blocks while a task holds the lock.
Acquire(t) ==
    /\ lk[t] # NoTask
    /\ lk[t].pc <= Len(Program[lk[t].prog])
    /\ Op(t).op = "acquire"
    /\ \A u \in Tasks : \A i \in 1..Len(lk[u].held) : lk[u].held[i] # Op(t).lock
    /\ lk' = [lk EXCEPT ![t].pc = @ + 1, ![t].held = Append(@, Op(t).lock)]

\* The sequence s without its element l.
RECURSIVE Without(_, _)
Without(s, l) ==
    IF s = << >> THEN << >>
    ELSE IF Head(s) = l THEN Without(Tail(s), l)
    ELSE << Head(s) >> \o Without(Tail(s), l)

\* Lock.release, at the end of a with block.
Release(t) ==
    /\ lk[t] # NoTask
    /\ lk[t].pc <= Len(Program[lk[t].prog])
    /\ Op(t).op = "release"
    /\ lk' = [lk EXCEPT ![t].pc = @ + 1, ![t].held = Without(@, Op(t).lock)]

\* sendall on a socket, or write, flush and fsync of the WAL file.
InputOutput(t) ==
    /\ lk[t] # NoTask
    /\ lk[t].pc <= Len(Program[lk[t].prog])
    /\ Op(t).op \in {"send", "write"}
    /\ lk' = [lk EXCEPT ![t].pc = @ + 1]

\* The method returns.
TaskReturns(t) ==
    /\ lk[t] # NoTask
    /\ lk[t].pc > Len(Program[lk[t].prog])
    /\ lk' = [lk EXCEPT ![t] = NoTask]

\* A step of the tasks changes nothing but the locks.
LockStep(A) ==
    /\ A
    /\ UNCHANGED << status, starts, recovered, prev, dup, call, dlv, envV, leadV, resV,
                    connV, thrV, netV, elV, delivV, last_seq, history,
                    seen_order_uuids, c2s, s2c, used_uuids, client_uuids >>

\* ---------------------------------------------------------------- election
NoElection == [pc |-> "idle", prop |-> 0]
Electing(n) == \E k \in Threads : elect[n][k].pc # "idle"
FreeThread(n, T) == CHOOSE k \in T : elect[n][k].pc = "idle"

\* _safe_start_election passes its guards: not leader, no election started
\* less than 2 s ago.
StartsElection(n) == role[n] # "leader" /\ ~(in_election[n] /\ in_election_since[n] = 1)

\* The ELECTION datagrams the new election thread sends: one to each known
\* peer with a higher id, carrying proposed_epoch = epoch + 1.
ElectionMsgs(n, known) == {election(n, p, epoch[n] + 1) : p \in {q \in known : q > n}}

\* _safe_start_election and the start of the thread it spawns (_bully_election
\* up to the wait for ANSWER), with the threads of T to run it.  Sets the
\* election variables but lsn.
SafeStartElection(n, T) ==
    IF StartsElection(n)
    THEN /\ \E k \in T : elect[n][k].pc = "idle"
         /\ epoch[n] + 1 <= MaxEpoch
         /\ in_election' = [in_election EXCEPT ![n] = TRUE]
         /\ in_election_since' = [in_election_since EXCEPT ![n] = 1]
         /\ answer_event' = [answer_event EXCEPT ![n] = FALSE]
         /\ coordinator_event' = [coordinator_event EXCEPT ![n] = FALSE]
         /\ coordinator_msg' = [coordinator_msg EXCEPT ![n] = NoMsg]
         /\ elect' = [elect EXCEPT ![n][FreeThread(n, T)] =
                        [pc |-> "wait_answer", prop |-> epoch[n] + 1]]
    ELSE UNCHANGED << in_election, in_election_since, answer_event,
                      coordinator_event, coordinator_msg, elect >>

\* The store of self.epoch = max(self.epoch, e) by the listener thread.  The
\* election thread writes epoch too and no lock orders the two: while an
\* election thread runs, the listener's read and its store are two steps.
ListenerStoresEpoch(n, e) ==
    IF Electing(n)
    THEN /\ lsn' = [lsn EXCEPT ![n] = Max(epoch[n], e)]
         /\ UNCHANGED epoch
    ELSE /\ epoch' = [epoch EXCEPT ![n] = Max(@, e)]
         /\ UNCHANGED lsn

ListenerStore(n) ==
    /\ status[n] = "run"
    /\ lsn[n] # 0
    /\ epoch' = [epoch EXCEPT ![n] = lsn[n]]
    /\ lsn' = [lsn EXCEPT ![n] = 0]
    /\ UNCHANGED << procV, role, leader, resV, connV, thrV, netV, delivV, last_seq,
                    history, seen_order_uuids, c2s, s2c, used_uuids, client_uuids,
                    in_election, in_election_since, answer_event, coordinator_event,
                    coordinator_msg, elect >>

\* The 2 s of the single-flight guard run out.
ElectionWindowElapses(n) ==
    /\ status[n] \in {"run", "stopped"}
    /\ in_election_since[n] = 1
    /\ in_election_since' = [in_election_since EXCEPT ![n] = 0]
    /\ UNCHANGED << procV, leadV, resV, connV, thrV, netV, delivV, last_seq, history,
                    seen_order_uuids, c2s, s2c, used_uuids, client_uuids, in_election,
                    answer_event, coordinator_event, coordinator_msg, elect, lsn >>

\* ------------------------------------------------------- UDP node listener
Receives(n, m) ==
    /\ status[n] = "run"
    /\ lsn[n] = 0
    /\ m \in udp
    /\ m.dst = n

\* I_AM_LEADER at a follower: the claim replaces the LeaderInfo if it is better.
OnIAmLeader(n, m) ==
    /\ Receives(n, m)
    /\ m.type = "I_AM_LEADER"
    /\ role[n] = "follower"
    /\ peers' = [peers EXCEPT ![n] = Registered(n, {m.src})]
    /\ UdpStep({m}, {})
    /\ LET new == LeaderInfo(m.src, m.epoch, m.last_seq)
       IN  IF IsBetterLeader(leader[n], new)
           THEN /\ IF leader[n] # NoLeader /\ new.leader_id # leader[n].leader_id
                   THEN CloseTcpClient(n)
                   ELSE UNCHANGED << connV, c2s, s2c >>
                /\ leader' = [leader EXCEPT ![n] = new]
                /\ ListenerStoresEpoch(n, new.epoch)
           ELSE UNCHANGED << connV, c2s, s2c, leader, epoch, lsn >>
    /\ UNCHANGED << procV, lossy, role, resV, thrV, delivV, last_seq, history,
                    seen_order_uuids, used_uuids, client_uuids, in_election,
                    in_election_since, answer_event, coordinator_event, coordinator_msg,
                    elect >>

\* Every LEADER_ALIVE refreshes the known leader, whoever sent it.
OnLeaderAliveFromAnyone(n, m) ==
    /\ Receives(n, m)
    /\ m.type = "LEADER_ALIVE"
    /\ role[n] = "follower"
    /\ peers' = [peers EXCEPT ![n] = Registered(n, {m.src} \cup m.cluster)]
    /\ UdpStep({m}, {})
    /\ LET cur == leader[n]
       IN  leader' = [leader EXCEPT ![n] =
                        IF cur = NoLeader THEN LeaderInfo(m.src, m.epoch, m.last_seq)
                        ELSE [cur EXCEPT !.last_seen_ts = now,
                                         !.epoch = Max(cur.epoch, m.epoch),
                                         !.last_seq = Max(cur.last_seq, m.last_seq),
                                         !.leader_ip = IpOf(m.src)]]
    /\ ListenerStoresEpoch(n, m.epoch)
    /\ UNCHANGED << procV, lossy, role, resV, connV, thrV, delivV, last_seq, history,
                    seen_order_uuids, c2s, s2c, used_uuids, client_uuids, in_election,
                    in_election_since, answer_event, coordinator_event,
                    coordinator_msg, elect >>

\* LEADER_ALIVE at a follower: accepted when no leader is known; of the known
\* leader, or of a higher epoch, it refreshes last_seen_ts, the epoch, last_seq
\* and the address (ip and tcp port) of the LeaderInfo, whose leader_id stays.
OnLeaderAlive(n, m) ==
    /\ Receives(n, m)
    /\ m.type = "LEADER_ALIVE"
    /\ role[n] = "follower"
    /\ peers' = [peers EXCEPT ![n] = Registered(n, {m.src} \cup m.cluster)]
    /\ UdpStep({m}, {})
    /\ LET cur == leader[n]
       IN  leader' = [leader EXCEPT ![n] =
                        IF cur = NoLeader THEN LeaderInfo(m.src, m.epoch, m.last_seq)
                        ELSE IF m.src = cur.leader_id \/ m.epoch > cur.epoch
                        THEN [cur EXCEPT !.last_seen_ts = now,
                                         !.epoch = Max(cur.epoch, m.epoch),
                                         !.last_seq = Max(cur.last_seq, m.last_seq),
                                         !.leader_ip = IpOf(m.src)]
                        ELSE cur]
    /\ ListenerStoresEpoch(n, m.epoch)
    /\ UNCHANGED << procV, lossy, role, resV, connV, thrV, delivV, last_seq, history,
                    seen_order_uuids, c2s, s2c, used_uuids, client_uuids, in_election,
                    in_election_since, answer_event, coordinator_event,
                    coordinator_msg, elect >>

\* ELECTION: a node with a higher id answers and starts its own election.
OnElectionIn(n, m, T) ==
    /\ Receives(n, m)
    /\ m.type = "ELECTION"
    /\ peers' = [peers EXCEPT ![n] = Registered(n, {m.src})]
    /\ IF n > m.src
       THEN /\ SafeStartElection(n, T)
            /\ UdpStep({m}, {answer(n, m.src, Max(epoch[n], m.epoch))}
                            \cup (IF StartsElection(n)
                                  THEN ElectionMsgs(n, Registered(n, {m.src}))
                                  ELSE {}))
       ELSE /\ UdpStep({m}, {})
            /\ UNCHANGED << in_election, in_election_since, answer_event,
                            coordinator_event, coordinator_msg, elect >>
    /\ UNCHANGED << procV, lossy, leadV, resV, connV, thrV, delivV, last_seq, history,
                    seen_order_uuids, c2s, s2c, used_uuids, client_uuids, lsn >>

OnElection(n, m) == OnElectionIn(n, m, Pool)

\* ANSWER: answer_event.set().
OnAnswer(n, m) ==
    /\ Receives(n, m)
    /\ m.type = "ANSWER"
    /\ peers' = [peers EXCEPT ![n] = Registered(n, {m.src})]
    /\ UdpStep({m}, {})
    /\ answer_event' = [answer_event EXCEPT ![n] = TRUE]
    /\ UNCHANGED << procV, lossy, leadV, resV, connV, thrV, delivV, last_seq, history,
                    seen_order_uuids, c2s, s2c, used_uuids, client_uuids, in_election,
                    in_election_since, coordinator_event, coordinator_msg, elect, lsn >>

\* should_step_down of the COORDINATOR handler.
ShouldStepDown(n, m) ==
    /\ role[n] = "leader"
    /\ m.src # n
    /\ (m.epoch > epoch[n] \/ (m.epoch = epoch[n] /\ m.src > n))

\* COORDINATOR: kept for the election thread; a leader steps down to a
\* superior coordinator (_demote_to_follower); a follower takes the announced
\* leader, closing its connection when the leader id changes.
OnCoordinator(n, m) ==
    /\ Receives(n, m)
    /\ m.type = "COORDINATOR"
    /\ peers' = [peers EXCEPT ![n] = Registered(n, {m.src})]
    /\ UdpStep({m}, {})
    /\ coordinator_msg' = [coordinator_msg EXCEPT ![n] = m]
    /\ coordinator_event' = [coordinator_event EXCEPT ![n] = TRUE]
    /\ LET new == LeaderInfo(m.src, m.epoch, m.last_seq)
       IN  IF ShouldStepDown(n, m)
           THEN /\ role' = [role EXCEPT ![n] = "follower"]
                /\ tcp_server' = [tcp_server EXCEPT ![n] = FALSE]
                /\ udp_disc' = [udp_disc EXCEPT ![n] = FALSE]
                /\ tcp_client' = [tcp_client EXCEPT ![n] = TRUE]
                /\ clients' = [clients EXCEPT ![n] = {}]
                /\ sock' = [sock EXCEPT ![n] = NoNode]
                /\ UNCHANGED << tcp_connected, c2s, s2c >>
                /\ leader' = [leader EXCEPT ![n] = new]
                /\ ListenerStoresEpoch(n, m.epoch)
           ELSE IF role[n] = "follower"
           THEN /\ IF leader[n] = NoLeader \/ m.src # leader[n].leader_id
                   THEN CloseTcpClient(n)
                   ELSE UNCHANGED << connV, c2s, s2c >>
                /\ leader' = [leader EXCEPT ![n] = new]
                /\ ListenerStoresEpoch(n, m.epoch)
                /\ UNCHANGED << role, resV >>
           ELSE UNCHANGED << leadV, resV, connV, c2s, s2c, lsn >>
    /\ UNCHANGED << procV, lossy, thrV, delivV, last_seq, history, seen_order_uuids,
                    used_uuids, client_uuids, in_election, in_election_since,
                    answer_event, elect >>

\* A datagram no branch of the listener acts on: only the peer is registered.
OnUnhandled(n, m) ==
    /\ Receives(n, m)
    /\ m.type \in {"I_AM_LEADER", "LEADER_ALIVE"}
    /\ role[n] # "follower"
    /\ peers' = [peers EXCEPT ![n] = Registered(n, {m.src})]
    /\ UdpStep({m}, {})
    /\ UNCHANGED << procV, lossy, leadV, resV, connV, thrV, delivV, last_seq, history,
                    seen_order_uuids, c2s, s2c, used_uuids, client_uuids, elV >>

\* A datagram that arrives at a port no socket is bound to.
UdpDropped(m) ==
    /\ m \in udp
    /\ \/ status[m.dst] \in {"off", "stopped"}
       \/ m.type = "WHO_IS_LEADER" /\ ~udp_disc[m.dst]
    /\ udp' = udp \ {m}
    /\ UNCHANGED << procV, leadV, resV, connV, thrV, peers, lossy, delivV, last_seq,
                    history, seen_order_uuids, c2s, s2c, used_uuids, client_uuids,
                    elV >>


\* Any datagram in flight may be lost.
UdpLost(m) ==
    /\ m \in udp
    /\ udp' = udp \ {m}
    /\ UNCHANGED << procV, leadV, resV, connV, thrV, peers, lossy, delivV, last_seq,
                    history, seen_order_uuids, c2s, s2c, used_uuids, client_uuids,
                    elV >>

\* ------------------------------------------------------ discovery listener
\* WHO_IS_LEADER on the discovery port: a leader registers the asker and
\* answers I_AM_LEADER with its epoch and last_seq.
OnWhoIsLeader(n, m) ==
    /\ status[n] = "run"
    /\ udp_disc[n]
    /\ m \in udp
    /\ m.dst = n
    /\ m.type = "WHO_IS_LEADER"
    /\ IF role[n] = "leader"
       THEN /\ peers' = [peers EXCEPT ![n] = Registered(n, {m.src})]
            /\ UdpStep({m}, {i_am_leader(n, m.src, epoch[n], last_seq[n])})
       ELSE /\ UdpStep({m}, {})
            /\ UNCHANGED peers
    /\ UNCHANGED << procV, lossy, leadV, resV, connV, thrV, delivV, last_seq, history,
                    seen_order_uuids, c2s, s2c, used_uuids, client_uuids, elV >>

\* --------------------------------------------------------- election thread
\* The wait for ANSWER ends in a promotion whether an ANSWER came or not.
AnswerTimeoutIgnoresAnswer(n, k) ==
    /\ status[n] \in {"run", "stopped"}
    /\ elect[n][k].pc = "wait_answer"
    /\ Max(epoch[n] + 1, elect[n][k].prop) <= MaxEpoch
    /\ CloseTcpClient(n)
    /\ role' = [role EXCEPT ![n] = "leader"]
    /\ leader' = [leader EXCEPT ![n] = NoLeader]
    /\ elect' = [elect EXCEPT ![n][k] =
                   [pc |-> "promoting", prop |-> Max(epoch[n] + 1, elect[n][k].prop)]]
    /\ UNCHANGED << procV, epoch, resV, thrV, netV, delivV, last_seq, history,
                    seen_order_uuids, used_uuids, client_uuids, in_election,
                    in_election_since, answer_event, coordinator_event, coordinator_msg,
                    lsn >>

\* The wait for ANSWER times out: _promote_to_leader up to the read of epoch
\* (the TCP client is closed, role and leader are set, the new epoch computed).
AnswerTimeout(n, k) ==
    /\ status[n] \in {"run", "stopped"}
    /\ elect[n][k].pc = "wait_answer"
    /\ ~answer_event[n]
    /\ Max(epoch[n] + 1, elect[n][k].prop) <= MaxEpoch
    /\ CloseTcpClient(n)
    /\ role' = [role EXCEPT ![n] = "leader"]
    /\ leader' = [leader EXCEPT ![n] = NoLeader]
    /\ elect' = [elect EXCEPT ![n][k] =
                   [pc |-> "promoting", prop |-> Max(epoch[n] + 1, elect[n][k].prop)]]
    /\ UNCHANGED << procV, epoch, resV, thrV, netV, delivV, last_seq, history,
                    seen_order_uuids, used_uuids, client_uuids, in_election,
                    in_election_since, answer_event, coordinator_event, coordinator_msg,
                    lsn >>

\* The rest of _promote_to_leader and the end of the election: the epoch is
\* stored, the discovery port bound and the TCP server started if the node
\* holds none, last_seq recomputed from history, expected_seq moved past it,
\* COORDINATOR sent to every known peer, in_election reset.
PromoteToLeader(n, k) ==
    /\ status[n] \in {"run", "stopped"}
    /\ elect[n][k].pc = "promoting"
    /\ epoch' = [epoch EXCEPT ![n] = elect[n][k].prop]
    /\ udp_disc' = [udp_disc EXCEPT ![n] = TRUE]
    /\ tcp_server' = [tcp_server EXCEPT ![n] = TRUE]
    /\ LET ls == Max(last_seq[n], MaxKey(history[n]))
           ex == Max(expected_seq[n], ls + 1)
       IN  /\ last_seq' = [last_seq EXCEPT ![n] = ls]
           /\ expected_seq' = [expected_seq EXCEPT ![n] = ex]
           /\ delivered_seqs' = [delivered_seqs EXCEPT ![n] = @ \cup (1..(ex - 1))]
           /\ IF status[n] = "run"
              THEN UdpStep({}, {coordinator(n, p, elect[n][k].prop, ls) : p \in peers[n]})
              ELSE UNCHANGED udp
    /\ in_election' = [in_election EXCEPT ![n] = FALSE]
    /\ in_election_since' = [in_election_since EXCEPT ![n] = 0]
    /\ elect' = [elect EXCEPT ![n][k] = NoElection]
    /\ UNCHANGED << procV, role, leader, tcp_client, connV, thrV, peers, lossy, buffer,
                    last_resend_ts, wal, sink, history, seen_order_uuids, c2s, s2c,
                    used_uuids, client_uuids, answer_event, coordinator_event,
                    coordinator_msg, lsn >>

\* An ANSWER was observed: wait for the COORDINATOR.
GotAnswer(n, k) ==
    /\ status[n] \in {"run", "stopped"}
    /\ elect[n][k].pc = "wait_answer"
    /\ answer_event[n]
    /\ elect' = [elect EXCEPT ![n][k].pc = "wait_coord"]
    /\ UNCHANGED << procV, leadV, resV, connV, thrV, netV, delivV, last_seq, history,
                    seen_order_uuids, c2s, s2c, used_uuids, client_uuids, in_election,
                    in_election_since, answer_event, coordinator_event,
                    coordinator_msg, lsn >>

\* The wait for COORDINATOR times out (or the message slot is empty): only
\* the single-flight guard is released.
CoordinatorTimeout(n, k) ==
    /\ status[n] \in {"run", "stopped"}
    /\ elect[n][k].pc = "wait_coord"
    /\ ~coordinator_event[n] \/ coordinator_msg[n] = NoMsg
    /\ in_election' = [in_election EXCEPT ![n] = FALSE]
    /\ in_election_since' = [in_election_since EXCEPT ![n] = 0]
    /\ elect' = [elect EXCEPT ![n][k] = NoElection]
    /\ UNCHANGED << procV, leadV, resV, connV, thrV, netV, delivV, last_seq, history,
                    seen_order_uuids, c2s, s2c, used_uuids, client_uuids, answer_event,
                    coordinator_event, coordinator_msg, lsn >>

\* A COORDINATOR was observed: the candidate adopts the announced leader, takes
\* the max of the epochs, resets in_election and connects.  msg["leader_id"]
\* raises KeyError on a message without the field: the thread ends there,
\* before anything is stored.
GotCoordinator(n, k) ==
    /\ status[n] \in {"run", "stopped"}
    /\ elect[n][k].pc = "wait_coord"
    /\ coordinator_event[n]
    /\ coordinator_msg[n] # NoMsg
    /\ LET m == coordinator_msg[n]
           lead == LeaderInfo(m.src, m.epoch, m.last_seq)
       IN  IF HasLeaderId(m)
           THEN /\ epoch' = [epoch EXCEPT ![n] = Max(@, lead.epoch)]
                /\ leader' = [leader EXCEPT ![n] = lead]
                /\ IF status[n] = "run"
                   THEN EnsureTcpConnected(n, lead)
                   ELSE UNCHANGED << connV, c2s, s2c >>
                /\ in_election' = [in_election EXCEPT ![n] = FALSE]
                /\ in_election_since' = [in_election_since EXCEPT ![n] = 0]
           ELSE UNCHANGED << epoch, leader, connV, c2s, s2c, in_election,
                             in_election_since >>
    /\ elect' = [elect EXCEPT ![n][k] = NoElection]
    /\ UNCHANGED << procV, role, resV, thrV, netV, delivV, last_seq, history,
                    seen_order_uuids, used_uuids, client_uuids, answer_event,
                    coordinator_event, coordinator_msg, lsn >>

\* --------------------------------------------------- follower discovery loop
\* The known leader was not heard of for LEADER_TIMEOUT: the connection is
\* closed, the leader forgotten, an election started.
LeaderTimeoutIn(n, T) ==
    /\ status[n] = "run"
    /\ role[n] = "follower"
    /\ leader[n] # NoLeader
    /\ CloseTcpClient(n)
    /\ leader' = [leader EXCEPT ![n] = NoLeader]
    /\ SafeStartElection(n, T)
    /\ UdpStep({}, IF StartsElection(n) THEN ElectionMsgs(n, peers[n]) ELSE {})
    /\ UNCHANGED << procV, role, epoch, resV, thrV, peers, lossy, delivV, last_seq,
                    history, seen_order_uuids, used_uuids, client_uuids, lsn >>

LeaderTimeout(n) == LeaderTimeoutIn(n, Pool)

\* No leader known and no election running: WHO_IS_LEADER to the discovery port.
DiscoveryAsk(n) ==
    /\ status[n] = "run"
    /\ role[n] = "follower"
    /\ leader[n] = NoLeader
    /\ ~in_election[n]
    /\ DiscoveryHolders(n) # {}
    /\ UdpStep({}, {who_is_leader(n, p) : p \in DiscoveryHolders(n)})
    /\ UNCHANGED << procV, leadV, resV, connV, thrV, peers, lossy, delivV, last_seq,
                    history, seen_order_uuids, c2s, s2c, used_uuids, client_uuids,
                    elV >>

\* A leader is known and the TCP client is not connected: connect.
DiscoveryConnect(n) ==
    /\ status[n] = "run"
    /\ role[n] = "follower"
    /\ leader[n] # NoLeader
    /\ tcp_client[n]
    /\ ~tcp_connected[n]
    /\ EnsureTcpConnected(n, leader[n])
    /\ UNCHANGED << procV, leadV, resV, thrV, netV, delivV, last_seq, history,
                    seen_order_uuids, used_uuids, client_uuids, elV >>

\* _prune_peers: a peer not seen for PEER_EXPIRY is dropped from the registry.
PrunePeers(n, p) ==
    /\ status[n] = "run"
    /\ role[n] = "follower"
    /\ p \in peers[n]
    /\ peers' = [peers EXCEPT ![n] = @ \ {p}]
    /\ UNCHANGED << procV, leadV, resV, connV, thrV, udp, lossy, delivV, last_seq,
                    history, seen_order_uuids, c2s, s2c, used_uuids, client_uuids,
                    elV >>

\* ---------------------------------------------------------- leader heartbeat
\* One round of _leader_heartbeat_loop: last_seq is recomputed from history and
\* LEADER_ALIVE, with the peer list, sent to every known peer.
LeaderHeartbeat(n) ==
    /\ status[n] = "run"
    /\ role[n] = "leader"
    /\ \A k \in Threads : elect[n][k].pc # "promoting"
    /\ peers[n] # {}
    /\ LET ls == Max(last_seq[n], MaxKey(history[n]))
       IN  /\ last_seq' = [last_seq EXCEPT ![n] = ls]
           /\ UdpStep({}, {leader_alive(n, p, epoch[n], ls, peers[n]) : p \in peers[n]})
    /\ UNCHANGED << procV, leadV, resV, connV, thrV, peers, lossy, delivV, history,
                    seen_order_uuids, c2s, s2c, used_uuids, client_uuids, elV >>


\* ------------------------------------------------------- WAL and lifecycle
\* _recover_from_wal: every record of the file is put in history in file
\* order; last_seq is the highest seq read; the uuids are remembered.
RECURSIVE WalHistory(_, _)
WalHistory(w, h) ==
    IF w = << >> THEN h
    ELSE WalHistory(Tail(w), [h EXCEPT ![Head(w).seq] = Head(w)])

RecoverFromWal(w) ==
    LET h  == WalHistory(w, EmptyMap)
        ls == MaxKey(h)
    IN  [history |-> h,
         last_seq |-> ls,
         seen_order_uuids |-> {w[i].uuid : i \in 1..Len(w)},
         expected_seq |-> ls + 1,
         delivered_seqs |-> 1..ls]

\* The connections and threads of a process that ends, or stops, go with it.
Disconnects(n) ==
    /\ sock' = [sock EXCEPT ![n] = NoNode]
    /\ clients' = [s \in Nodes |-> IF s = n THEN {} ELSE clients[s] \ {n}]
    /\ tcp_connected' = [tcp_connected EXCEPT ![n] = FALSE]
    /\ c2s' = [c2s EXCEPT ![n] = << >>]
    /\ s2c' = [s2c EXCEPT ![n] = << >>]

\* Node.__init__ and Node.run up to the existing-leader probe: the state of a
\* new Node, recovered from the WAL; a node asked to lead binds the discovery
\* port and probes for a leader before it starts anything.
Start(n, r) ==
    /\ status[n] = "off"
    /\ starts < MaxStarts
    /\ starts' = starts + 1
    /\ LET rec == RecoverFromWal(wal[n])
       IN  /\ history' = [history EXCEPT ![n] = rec.history]
           /\ last_seq' = [last_seq EXCEPT ![n] = rec.last_seq]
           /\ seen_order_uuids' = [seen_order_uuids EXCEPT ![n] = rec.seen_order_uuids]
           /\ expected_seq' = [expected_seq EXCEPT ![n] = rec.expected_seq]
           /\ delivered_seqs' = [delivered_seqs EXCEPT ![n] = rec.delivered_seqs]
           /\ recovered' = [recovered EXCEPT ![n] = Keys(rec.history)]
    /\ role' = [role EXCEPT ![n] = r]
    /\ udp_disc' = [udp_disc EXCEPT ![n] = (r = "leader")]
    /\ tcp_client' = [tcp_client EXCEPT ![n] = (r = "follower")]
    /\ status' = [status EXCEPT ![n] = IF r = "leader" THEN "probe" ELSE "run"]
    /\ IF r = "leader"
       THEN UdpStep({}, {who_is_leader(n, p) : p \in DiscoveryHolders(n)})
       ELSE UNCHANGED udp
    /\ UNCHANGED << epoch, leader, tcp_server, connV, thrV, peers, lossy, buffer,
                    last_resend_ts, wal, sink, c2s, s2c, used_uuids, client_uuids, elV,
                    prev, dup, call, dlv, lk, envV >>

\* The demotion at startup with the discovery socket left open.
ProbeFindsLeaderKeepsSocket(n, m) ==
    /\ status[n] = "probe"
    /\ m \in udp
    /\ m.dst = n
    /\ m.type = "I_AM_LEADER"
    /\ udp' = udp \ {m}
    /\ role' = [role EXCEPT ![n] = "follower"]
    /\ tcp_client' = [tcp_client EXCEPT ![n] = TRUE]
    /\ status' = [status EXCEPT ![n] = "run"]
    /\ UNCHANGED << starts, dup, call, dlv, lk, envV, recovered, prev, epoch, leader, tcp_server, udp_disc,
                    connV, thrV, peers, lossy, delivV, last_seq, history,
                    seen_order_uuids, c2s, s2c, used_uuids, client_uuids, elV >>

\* _check_existing_leader reads an I_AM_LEADER: the node demotes itself and
\* runs as a follower (the discovery socket is closed, no TCP server started).
ProbeFindsLeader(n, m) ==
    /\ status[n] = "probe"
    /\ m \in udp
    /\ m.dst = n
    /\ m.type = "I_AM_LEADER"
    /\ udp' = udp \ {m}
    /\ role' = [role EXCEPT ![n] = "follower"]
    /\ udp_disc' = [udp_disc EXCEPT ![n] = FALSE]
    /\ tcp_client' = [tcp_client EXCEPT ![n] = TRUE]
    /\ status' = [status EXCEPT ![n] = "run"]
    /\ UNCHANGED << starts, dup, call, dlv, lk, envV, recovered, prev, epoch, leader, tcp_server, connV, thrV,
                    peers, lossy, delivV, last_seq, history, seen_order_uuids, c2s, s2c,
                    used_uuids, client_uuids, elV >>

\* _check_existing_leader reads any other datagram: it is discarded.
ProbeDiscards(n, m) ==
    /\ status[n] = "probe"
    /\ m \in udp
    /\ m.dst = n
    /\ m.type \notin {"I_AM_LEADER", "WHO_IS_LEADER"}
    /\ udp' = udp \ {m}
    /\ UNCHANGED << procV, leadV, resV, connV, thrV, peers, lossy, delivV, last_seq,
                    history, seen_order_uuids, c2s, s2c, used_uuids, client_uuids,
                    elV >>

\* The probe ends without an I_AM_LEADER: the node runs as leader (listeners,
\* TCP server, heartbeat).
ProbeTimeout(n) ==
    /\ status[n] = "probe"
    /\ tcp_server' = [tcp_server EXCEPT ![n] = TRUE]
    /\ status' = [status EXCEPT ![n] = "run"]
    /\ UNCHANGED << starts, dup, call, dlv, lk, envV, recovered, prev, leadV, udp_disc, tcp_client, connV, thrV,
                    netV, delivV, last_seq, history, seen_order_uuids, c2s, s2c,
                    used_uuids, client_uuids, elV >>

\* Node.stop: the stop flag is set and every socket closed; the loops end.
Stop(n) ==
    /\ status[n] = "run"
    /\ status' = [status EXCEPT ![n] = "stopped"]
    /\ Disconnects(n)
    /\ lsn' = [lsn EXCEPT ![n] = 0]
    /\ UNCHANGED << starts, dup, call, dlv, lk, envV, recovered, prev, leadV, resV, thrV, netV, delivV, last_seq,
                    history, seen_order_uuids, used_uuids, client_uuids, in_election,
                    in_election_since, answer_event, coordinator_event, coordinator_msg,
                    elect >>

\* What a process leaves behind for a comparison with its successor: its
\* expected_seq, its history and the seqs it handed to _deliver.
NoProcess == [expected_seq |-> 1, history |-> EmptyMap, emitted |-> {}]
Ended(n) == [expected_seq |-> expected_seq[n], history |-> history[n],
             emitted |-> {sink[n][i].seq : i \in 1..Len(sink[n])}]

\* The process ends: everything but the WAL file is gone.
Crash(n) ==
    /\ status[n] # "off"
    /\ status' = [status EXCEPT ![n] = "off"]
    /\ Disconnects(n)
    /\ role' = [role EXCEPT ![n] = "follower"]
    /\ epoch' = [epoch EXCEPT ![n] = 1]
    /\ leader' = [leader EXCEPT ![n] = NoLeader]
    /\ last_seq' = [last_seq EXCEPT ![n] = 0]
    /\ history' = [history EXCEPT ![n] = EmptyMap]
    /\ expected_seq' = [expected_seq EXCEPT ![n] = 1]
    /\ buffer' = [buffer EXCEPT ![n] = EmptyMap]
    /\ delivered_seqs' = [delivered_seqs EXCEPT ![n] = {}]
    /\ last_resend_ts' = [last_resend_ts EXCEPT ![n] = 0]
    /\ seen_order_uuids' = [seen_order_uuids EXCEPT ![n] = {}]
    /\ sink' = [sink EXCEPT ![n] = << >>]
    /\ tcp_server' = [tcp_server EXCEPT ![n] = FALSE]
    /\ udp_disc' = [udp_disc EXCEPT ![n] = FALSE]
    /\ tcp_client' = [tcp_client EXCEPT ![n] = FALSE]
    /\ hnd' = [f \in Nodes |-> IF hnd[f].srv = n THEN NoThread ELSE hnd[f]]
    /\ loc' = [loc EXCEPT ![n] = NoThread]
    /\ peers' = [peers EXCEPT ![n] = {}]
    /\ in_election' = [in_election EXCEPT ![n] = FALSE]
    /\ in_election_since' = [in_election_since EXCEPT ![n] = 0]
    /\ answer_event' = [answer_event EXCEPT ![n] = FALSE]
    /\ coordinator_event' = [coordinator_event EXCEPT ![n] = FALSE]
    /\ coordinator_msg' = [coordinator_msg EXCEPT ![n] = NoMsg]
    /\ elect' = [elect EXCEPT ![n] = [k \in Threads |-> NoElection]]
    /\ lsn' = [lsn EXCEPT ![n] = 0]
    /\ recovered' = [recovered EXCEPT ![n] = {}]
    /\ prev' = [prev EXCEPT ![n] = Ended(n)]
    /\ dlv' = [dlv EXCEPT ![n] = NoDelivery]
    /\ UNCHANGED << starts, dup, call, lk, envV, wal, udp, lossy, used_uuids, client_uuids >>

\* ------------------------------------------------- a second instance of an id
\* Everything a second process started with the id of node n leaves alone
\* while it runs _check_id_available: the first instance and the network.
firstV == << status, starts, recovered, prev, call, dlv, lk, envV, leadV, resV, connV, thrV, netV, elV,
             delivV, last_seq, history, seen_order_uuids, c2s, s2c, used_uuids,
             client_uuids >>

\* A second process is started with the id of the running node n on another
\* host: Node.__init__ binds its sockets, and run() broadcasts ID_CHECK.
StartDuplicate(n) ==
    /\ status[n] = "run"
    /\ dup[n] = "off"
    /\ dup' = [dup EXCEPT ![n] = "check"]
    /\ UNCHANGED firstV

\* A second process is started on the host of node n: the bind of the UDP port
\* raises OSError in Node.__init__, and main exits with status 1.
DupBindFails(n) ==
    /\ status[n] \in {"probe", "run"}
    /\ dup[n] = "off"
    /\ dup' = [dup EXCEPT ![n] = "exit1"]
    /\ UNCHANGED firstV

\* The listener of the first instance reads the ID_CHECK and answers ID_TAKEN to
\* the address it came from.  The datagram has no sender_id: no peer is
\* registered.
OnIdCheck(n) ==
    /\ status[n] = "run"
    /\ lsn[n] = 0
    /\ dup[n] = "check"
    /\ dup' = [dup EXCEPT ![n] = "taken"]
    /\ UNCHANGED firstV

\* The second instance reads the ID_TAKEN with its own id within the window:
\* _check_id_available returns False, run() returns before any thread is
\* started, and main goes on to its sleep loop.
DupRefused(n) ==
    /\ dup[n] = "taken"
    /\ dup' = [dup EXCEPT ![n] = "refused"]
    /\ UNCHANGED firstV

\* The window of _check_id_available ends with no ID_TAKEN read: the second
\* instance goes on to start.
DupWindowEnds(n) ==
    /\ dup[n] \in {"check", "taken"}
    /\ dup' = [dup EXCEPT ![n] = "started"]
    /\ UNCHANGED firstV

\* The operator interrupts the refused instance in its sleep loop: main calls
\* node.stop() and returns, the process ends with status 0.
DupInterrupt(n) ==
    /\ dup[n] = "refused"
    /\ dup' = [dup EXCEPT ![n] = "exit0"]
    /\ UNCHANGED firstV


\* ------------------------------------------------------------ specification
\* No process runs.
Offline ==
    /\ now = 0
    /\ status = [n \in Nodes |-> "off"]
    /\ starts = 0
    /\ role = [n \in Nodes |-> "follower"]
    /\ epoch = [n \in Nodes |-> 1]
    /\ leader = [n \in Nodes |-> NoLeader]
    /\ last_seq = [n \in Nodes |-> 0]
    /\ history = [n \in Nodes |-> EmptyMap]
    /\ expected_seq = [n \in Nodes |-> 1]
    /\ buffer = [n \in Nodes |-> EmptyMap]
    /\ delivered_seqs = [n \in Nodes |-> {}]
    /\ last_resend_ts = [n \in Nodes |-> 0]
    /\ seen_order_uuids = [n \in Nodes |-> {}]
    /\ wal = [n \in Nodes |-> << >>]
    /\ sink = [n \in Nodes |-> << >>]
    /\ tcp_server = [n \in Nodes |-> FALSE]
    /\ udp_disc = [n \in Nodes |-> FALSE]
    /\ tcp_client = [n \in Nodes |-> FALSE]
    /\ tcp_connected = [n \in Nodes |-> FALSE]
    /\ sock = [n \in Nodes |-> NoNode]
    /\ clients = [n \in Nodes |-> {}]
    /\ c2s = [n \in Nodes |-> << >>]
    /\ s2c = [n \in Nodes |-> << >>]
    /\ hnd = [n \in Nodes |-> NoThread]
    /\ loc = [n \in Nodes |-> NoThread]
    /\ peers = [n \in Nodes |-> {}]
    /\ udp = {}
    /\ lossy = TRUE
    /\ in_election = [n \in Nodes |-> FALSE]
    /\ in_election_since = [n \in Nodes |-> 0]
    /\ answer_event = [n \in Nodes |-> FALSE]
    /\ coordinator_event = [n \in Nodes |-> FALSE]
    /\ coordinator_msg = [n \in Nodes |-> NoMsg]
    /\ elect = [n \in Nodes |-> [k \in Threads |-> NoElection]]
    /\ lsn = [n \in Nodes |-> 0]
    /\ used_uuids = {}
    /\ client_uuids = {}
    /\ recovered = [n \in Nodes |-> {}]
    /\ prev = [n \in Nodes |-> NoProcess]
    /\ dup = [n \in Nodes |-> "off"]
    /\ dlv = [n \in Nodes |-> NoDelivery]
    /\ lk = [t \in Tasks |-> NoTask]
    /\ wire = [n \in Nodes |-> << >>]
    /\ tc = NoClient

Init == Offline /\ call = NoCall

Next ==
    \/ \E n \in Nodes, r \in {"leader", "follower"} : Start(n, r)
    \/ \E n \in Nodes, m \in udp : ProbeFindsLeader(n, m)
    \/ \E n \in Nodes, m \in udp : ProbeDiscards(n, m)
    \/ \E n \in Nodes : ProbeTimeout(n)
    \/ \E n \in Nodes : Stop(n)
    \/ \E n \in Nodes : Crash(n)
    \/ \E n \in Nodes : SubmitOrderLeader(n)
    \/ \E n \in Nodes : SubmitOrderProcess(n)
    \/ \E n \in Nodes : SubmitOrderBroadcast(n)
    \/ \E n \in Nodes : SubmitOrderFollower(n)
    \/ \E n \in Nodes, u \in Uuids : RetryNewOrder(n, u)
    \/ \E s \in Nodes, f \in Nodes : LeaderOnNewOrder(s, f)
    \/ \E f \in Nodes : LeaderProcessOrder(f)
    \/ \E f \in Nodes : LeaderBroadcast(f)
    \/ \E s \in Nodes, f \in Nodes : LeaderOnResendRequest(s, f)
    \/ \E n \in Nodes : FollowerOnMsg(n)
    \/ \E n \in Nodes : FollowerReaderStopped(n)
    \/ \E n \in Nodes : ResendWindowElapses(n)
    \/ \E n \in Nodes, m \in udp : OnIAmLeader(n, m)
    \/ \E n \in Nodes, m \in udp : OnLeaderAlive(n, m)
    \/ \E n \in Nodes, m \in udp : OnElection(n, m)
    \/ \E n \in Nodes, m \in udp : OnAnswer(n, m)
    \/ \E n \in Nodes, m \in udp : OnCoordinator(n, m)
    \/ \E n \in Nodes, m \in udp : OnUnhandled(n, m)
    \/ \E n \in Nodes, m \in udp : OnWhoIsLeader(n, m)
    \/ \E m \in udp : UdpDropped(m)
    \/ \E m \in udp : UdpLost(m)
    \/ \E n \in Nodes : ListenerStore(n)
    \/ \E n \in Nodes : ElectionWindowElapses(n)
    \/ \E n \in Nodes, k \in Threads : AnswerTimeout(n, k)
    \/ \E n \in Nodes, k \in Threads : PromoteToLeader(n, k)
    \/ \E n \in Nodes, k \in Threads : GotAnswer(n, k)
    \/ \E n \in Nodes, k \in Threads : CoordinatorTimeout(n, k)
    \/ \E n \in Nodes, k \in Threads : GotCoordinator(n, k)
    \/ \E n \in Nodes : LeaderTimeout(n)
    \/ \E n \in Nodes : DiscoveryAsk(n)
    \/ \E n \in Nodes : DiscoveryConnect(n)
    \/ \E n \in Nodes, p \in Nodes : PrunePeers(n, p)
    \/ \E n \in Nodes : LeaderHeartbeat(n)
    \/ \E n \in Nodes : StartDuplicate(n)
    \/ \E n \in Nodes : DupBindFails(n)
    \/ \E n \in Nodes : OnIdCheck(n)
    \/ \E n \in Nodes : DupRefused(n)
    \/ \E n \in Nodes : DupWindowEnds(n)
    \/ \E n \in Nodes : DupInterrupt(n)
    \/ CallIsBetterLeader

Spec == Init /\ [][Next]_vars


\* ------------------------------------------------- an established cluster
\* The state a cluster is in once node ldr, started as leader, runs and the
\* nodes of fs, started as followers, have discovered it: the state after
\* Start, ProbeTimeout, DiscoveryAsk, OnWhoIsLeader and OnIAmLeader.
Established(ldr, fs) ==
    /\ now = 0
    /\ status = [n \in Nodes |-> IF n \in fs \cup {ldr} THEN "run" ELSE "off"]
    /\ starts = Cardinality(fs) + 1
    /\ role = [n \in Nodes |-> IF n = ldr THEN "leader" ELSE "follower"]
    /\ epoch = [n \in Nodes |-> 1]
    /\ leader = [n \in Nodes |-> IF n \in fs THEN LeaderInfo(ldr, 1, 0) ELSE NoLeader]
    /\ last_seq = [n \in Nodes |-> 0]
    /\ history = [n \in Nodes |-> EmptyMap]
    /\ expected_seq = [n \in Nodes |-> 1]
    /\ buffer = [n \in Nodes |-> EmptyMap]
    /\ delivered_seqs = [n \in Nodes |-> {}]
    /\ last_resend_ts = [n \in Nodes |-> 0]
    /\ seen_order_uuids = [n \in Nodes |-> {}]
    /\ wal = [n \in Nodes |-> << >>]
    /\ sink = [n \in Nodes |-> << >>]
    /\ tcp_server = [n \in Nodes |-> n = ldr]
    /\ udp_disc = [n \in Nodes |-> n = ldr]
    /\ tcp_client = [n \in Nodes |-> n \in fs]
    /\ tcp_connected = [n \in Nodes |-> FALSE]
    /\ sock = [n \in Nodes |-> NoNode]
    /\ clients = [n \in Nodes |-> {}]
    /\ c2s = [n \in Nodes |-> << >>]
    /\ s2c = [n \in Nodes |-> << >>]
    /\ hnd = [n \in Nodes |-> NoThread]
    /\ loc = [n \in Nodes |-> NoThread]
    /\ peers = [n \in Nodes |-> IF n = ldr THEN fs ELSE IF n \in fs THEN {ldr} ELSE {}]
    /\ udp = {}
    /\ in_election = [n \in Nodes |-> FALSE]
    /\ in_election_since = [n \in Nodes |-> 0]
    /\ answer_event = [n \in Nodes |-> FALSE]
    /\ coordinator_event = [n \in Nodes |-> FALSE]
    /\ coordinator_msg = [n \in Nodes |-> NoMsg]
    /\ elect = [n \in Nodes |-> [k \in Threads |-> NoElection]]
    /\ lsn = [n \in Nodes |-> 0]
    /\ used_uuids = {}
    /\ client_uuids = {}
    /\ recovered = [n \in Nodes |-> {}]
    /\ prev = [n \in Nodes |-> NoProcess]
    /\ dup = [n \in Nodes |-> "off"]
    /\ dlv = [n \in Nodes |-> NoDelivery]
    /\ lk = [t \in Tasks |-> NoTask]
    /\ wire = [n \in Nodes |-> << >>]
    /\ tc = NoClient
    /\ call = NoCall

\* Orders in a cluster of two, with the loss of the leader and the promotion
\* of the follower.
OrderNodes == {1, 2}

\* Fewer than MaxOrders orders have been submitted.
FewOrders == Cardinality(used_uuids) < MaxOrders
InitOrders == Established(2, {1}) /\ lossy = TRUE

NextOrders ==
    \/ \E n \in OrderNodes : FewOrders /\ SubmitOrderLeader(n)
    \/ \E n \in OrderNodes : SubmitOrderProcess(n)
    \/ \E n \in OrderNodes : SubmitOrderBroadcast(n)
    \/ \E n \in OrderNodes : FewOrders /\ SubmitOrderFollower(n)
    \/ \E n \in OrderNodes, u \in Uuids : RetryNewOrder(n, u)
    \/ \E s \in OrderNodes, f \in OrderNodes : LeaderOnNewOrder(s, f)
    \/ \E f \in OrderNodes : LeaderProcessOrder(f)
    \/ \E f \in OrderNodes : LeaderBroadcast(f)
    \/ \E s \in OrderNodes, f \in OrderNodes : LeaderOnResendRequest(s, f)
    \/ \E n \in OrderNodes : FollowerOnMsg(n)
    \/ \E n \in OrderNodes : FollowerReaderStopped(n)
    \/ \E n \in OrderNodes : ResendWindowElapses(n)
    \/ \E n \in OrderNodes : DiscoveryConnect(n)
    \/ \E n \in OrderNodes : Crash(n)
    \/ \E n \in OrderNodes : Start(n, "follower")
    \/ \E n \in OrderNodes : LeaderTimeout(n)
    \/ \E n \in OrderNodes, k \in Threads : AnswerTimeout(n, k)
    \/ \E n \in OrderNodes, k \in Threads : PromoteToLeader(n, k)
    \/ \E n \in OrderNodes : DiscoveryAsk(n)
    \/ \E n \in OrderNodes, m \in udp : OnWhoIsLeader(n, m)
    \/ \E n \in OrderNodes, m \in udp : OnIAmLeader(n, m)
    \/ \E m \in udp : UdpLost(m)

SpecOrders == InitOrders /\ [][NextOrders]_vars

\* Elections in a cluster of three: heartbeats, leader timeouts (true or
\* spurious), the Bully messages, promotion and step-down, on a lossy network.
InitElect == Established(3, {1, 2}) /\ lossy = TRUE

NextElect ==
    \/ \E n \in Nodes : LeaderHeartbeat(n)
    \/ \E n \in Nodes, m \in udp : OnLeaderAlive(n, m)
    \/ \E n \in Nodes, m \in udp : OnUnhandled(n, m)
    \/ \E n \in Nodes : LeaderTimeout(n)
    \/ \E n \in Nodes, m \in udp : OnElection(n, m)
    \/ \E n \in Nodes, m \in udp : OnAnswer(n, m)
    \/ \E n \in Nodes, m \in udp : OnCoordinator(n, m)
    \/ \E n \in Nodes, k \in Threads : AnswerTimeout(n, k)
    \/ \E n \in Nodes, k \in Threads : PromoteToLeader(n, k)
    \/ \E n \in Nodes, k \in Threads : GotAnswer(n, k)
    \/ \E n \in Nodes, k \in Threads : CoordinatorTimeout(n, k)
    \/ \E n \in Nodes, k \in Threads : GotCoordinator(n, k)
    \/ \E n \in Nodes : ListenerStore(n)
    \/ \E n \in Nodes : ElectionWindowElapses(n)
    \/ \E m \in udp : UdpLost(m)

SpecElect == InitElect /\ [][NextElect]_vars

\* Orders in a cluster of three that stays up: the followers connect and
\* submit orders, the leader submits its own.  Every thread of a node keeps
\* running (weak fairness of its steps); only submit_order is up to the user.
NextFlow ==
    \/ \E n \in Nodes : DiscoveryConnect(n)
    \/ \E n \in Nodes : FewOrders /\ SubmitOrderFollower(n)
    \/ \E n \in Nodes : FewOrders /\ SubmitOrderLeader(n)
    \/ \E n \in Nodes : SubmitOrderProcess(n)
    \/ \E n \in Nodes : SubmitOrderBroadcast(n)
    \/ \E s \in Nodes, f \in Nodes : LeaderOnNewOrder(s, f)
    \/ \E f \in Nodes : LeaderProcessOrder(f)
    \/ \E f \in Nodes : LeaderBroadcast(f)
    \/ \E s \in Nodes, f \in Nodes : LeaderOnResendRequest(s, f)
    \/ \E n \in Nodes : FollowerOnMsg(n)
    \/ \E n \in Nodes : ResendWindowElapses(n)

FairFlow ==
    /\ \A n \in Nodes : WF_vars(DiscoveryConnect(n))
    /\ \A n \in Nodes : WF_vars(SubmitOrderProcess(n))
    /\ \A n \in Nodes : WF_vars(SubmitOrderBroadcast(n))
    /\ \A s \in Nodes, f \in Nodes : WF_vars(LeaderOnNewOrder(s, f))
    /\ \A f \in Nodes : WF_vars(LeaderProcessOrder(f))
    /\ \A f \in Nodes : WF_vars(LeaderBroadcast(f))
    /\ \A s \in Nodes, f \in Nodes : WF_vars(LeaderOnResendRequest(s, f))
    /\ \A n \in Nodes : WF_vars(FollowerOnMsg(n))
    /\ \A n \in Nodes : WF_vars(ResendWindowElapses(n))

SpecFlow == InitElect /\ [][NextFlow]_vars /\ FairFlow

\* The orders of SpecFlow with _process_order taken step by step: _deliver
\* and _append_to_wal are steps of their own, and a thread broadcasts once it
\* is back from _process_order.
NextDurable ==
    \/ \E n \in Nodes : DiscoveryConnect(n)
    \/ \E n \in Nodes : FewOrders /\ SubmitOrderFollower(n)
    \/ \E n \in Nodes : FewOrders /\ SubmitOrderLeader(n)
    \/ \E n \in Nodes : SubmitOrderEnters(n)
    \/ \E n \in Nodes : Returned(n, "loc", NoNode) /\ SubmitOrderBroadcast(n)
    \/ \E s \in Nodes, f \in Nodes : LeaderOnNewOrder(s, f)
    \/ \E f \in Nodes : LeaderEntersOrder(f)
    \/ \E f \in Nodes : hnd[f].pc = "bcast" /\ Returned(hnd[f].srv, "hnd", f)
                        /\ LeaderBroadcast(f)
    \/ \E s \in Nodes, f \in Nodes : LeaderOnResendRequest(s, f)
    \/ \E n \in Nodes : FollowerEntersOrder(n)
    \/ \E n \in Nodes : Deliver(n)
    \/ \E n \in Nodes : AppendToWal(n)
    \/ \E n \in Nodes : ResendWindowElapses(n)

SpecDurable == InitElect /\ [][NextDurable]_vars

\* The tasks of the leader of a cluster that is up, by the locks they take:
\* any MaxTasks of the methods run at the same time.
NextLocks ==
    \/ \E t \in Tasks, p \in DOMAIN Program : LockStep(TaskCalls(t, p))
    \/ \E t \in Tasks : LockStep(Acquire(t))
    \/ \E t \in Tasks : LockStep(Release(t))
    \/ \E t \in Tasks : LockStep(InputOutput(t))
    \/ \E t \in Tasks : LockStep(TaskReturns(t))

SpecLocks == InitElect /\ [][NextLocks]_vars

\* One order of each node of a cluster of three: the leader's submit_order
\* and its two connection handlers sequence concurrently, so that ORDERs
\* reach a follower out of order, and a follower may connect after an ORDER
\* was broadcast.
\* The nodes that submit an order, in the order in which they do.
SubmitTurns == << 1, 3, 2 >>
Turn(n) ==
    /\ Cardinality(used_uuids) < Len(SubmitTurns)
    /\ SubmitTurns[Cardinality(used_uuids) + 1] = n

\* An exchange on a connection takes less than 0.5 s: the rate limit of
\* RESEND_REQUEST runs out only when nothing is on its way on the connection.
Quiet(n) == s2c[n] = << >> /\ c2s[n] = << >>

NextGap ==
    \/ \E n \in Nodes : DiscoveryConnect(n)
    \/ \E n \in Nodes : Turn(n) /\ SubmitOrderFollower(n)
    \/ \E n \in Nodes : Turn(n) /\ SubmitOrderLeader(n)
    \/ \E n \in Nodes : SubmitOrderProcess(n)
    \/ \E n \in Nodes : SubmitOrderBroadcast(n)
    \/ \E s \in Nodes, f \in Nodes : LeaderOnNewOrder(s, f)
    \/ \E f \in Nodes : LeaderProcessOrder(f)
    \/ \E f \in Nodes : LeaderBroadcast(f)
    \/ \E s \in Nodes, f \in Nodes : LeaderOnResendRequest(s, f)
    \/ \E n \in Nodes : FollowerOnMsg(n)
    \/ \E n \in Nodes : Quiet(n) /\ ResendWindowElapses(n)

\* The threads keep running: the discovery loop, the thread in submit_order,
\* the leader's reader of each connection, the follower's reader, the clock.
LeaderReader(f) ==
    \/ \E s \in Nodes : LeaderOnNewOrder(s, f) \/ LeaderOnResendRequest(s, f)
    \/ LeaderProcessOrder(f)
    \/ LeaderBroadcast(f)

FairGap ==
    \A n \in Nodes :
        /\ WF_vars(DiscoveryConnect(n))
        /\ WF_vars(SubmitOrderProcess(n) \/ SubmitOrderBroadcast(n))
        /\ WF_vars(LeaderReader(n))
        /\ WF_vars(FollowerOnMsg(n))
        /\ WF_vars(Quiet(n) /\ ResendWindowElapses(n))

SpecGap == InitElect /\ [][NextGap]_vars /\ FairGap

\* The failure of the leader of a cluster of three on a network that loses
\* nothing and is timely: a timeout runs out only when what it waits for is
\* not on its way.
InitFailover == Established(3, {1, 2}) /\ lossy = FALSE

\* last_seen_ts is never refreshed: the timeout runs out whatever arrives.
LeaderSilentAlways(n) == TRUE

\* No heartbeat of the leader node n knows is on its way, and none will be sent.
LeaderSilent(n) ==
    /\ leader[n].leader_id \in Nodes =>
           ~(status[leader[n].leader_id] = "run" /\ role[leader[n].leader_id] = "leader")
    /\ ~\E m \in udp : m.type = "LEADER_ALIVE" /\ m.dst = n

\* No ANSWER is on its way to node n.
NoAnswerComing(n) ==
    ~\E m \in udp : \/ m.type = "ANSWER" /\ m.dst = n
                    \/ m.type = "ELECTION" /\ m.src = n /\ status[m.dst] = "run"

NextFailover ==
    \/ Stop(3)
    \/ \E n \in Nodes : LeaderHeartbeat(n)
    \/ \E n \in Nodes, m \in udp : OnLeaderAlive(n, m)
    \/ \E n \in Nodes : LeaderTimeout(n) /\ LeaderSilent(n)
    \/ \E n \in Nodes, m \in udp : OnElection(n, m)
    \/ \E n \in Nodes, m \in udp : OnAnswer(n, m)
    \/ \E n \in Nodes, m \in udp : OnCoordinator(n, m)
    \/ \E n \in Nodes, k \in Threads : AnswerTimeout(n, k) /\ NoAnswerComing(n)
    \/ \E n \in Nodes, k \in Threads : PromoteToLeader(n, k)
    \/ \E n \in Nodes, k \in Threads : GotAnswer(n, k)
    \/ \E n \in Nodes, k \in Threads : GotCoordinator(n, k)
    \/ \E n \in Nodes : ListenerStore(n)
    \/ \E n \in Nodes : ElectionWindowElapses(n)
    \/ \E n \in Nodes : DiscoveryConnect(n)

FairFailover ==
    /\ \A n \in Nodes : WF_vars(LeaderHeartbeat(n))
    /\ \A n \in Nodes : WF_vars(\E m \in udp : OnLeaderAlive(n, m))
    /\ \A n \in Nodes : WF_vars(LeaderTimeout(n) /\ LeaderSilent(n))
    /\ \A n \in Nodes : WF_vars(\E m \in udp : OnElection(n, m))
    /\ \A n \in Nodes : WF_vars(\E m \in udp : OnAnswer(n, m))
    /\ \A n \in Nodes : WF_vars(\E m \in udp : OnCoordinator(n, m))
    /\ \A n \in Nodes, k \in Threads : WF_vars(AnswerTimeout(n, k) /\ NoAnswerComing(n))
    /\ \A n \in Nodes, k \in Threads : WF_vars(PromoteToLeader(n, k))
    /\ \A n \in Nodes, k \in Threads : WF_vars(GotAnswer(n, k))
    /\ \A n \in Nodes, k \in Threads : WF_vars(GotCoordinator(n, k))
    /\ \A n \in Nodes : WF_vars(ListenerStore(n))
    /\ \A n \in Nodes : WF_vars(ElectionWindowElapses(n))
    /\ \A n \in Nodes : WF_vars(DiscoveryConnect(n))

SpecFailover == InitFailover /\ [][NextFailover]_vars /\ FairFailover

\* The failure of a leader that has sequenced orders: once its heartbeat has
\* told the followers of each other, the leader submits orders of its own
\* while the followers connect, and then stops; the followers elect a leader
\* and connect to it.  The network loses nothing and is timely, the orders are
\* handled within one heartbeat interval, and every thread keeps running.
Acquainted == \A n \in Nodes \ {3} : peers[n] = Nodes \ {n}

\* A heartbeat round is due.
BeatDue == status[3] = "run" => ~Acquainted /\ udp = {}

NextHandover ==
    \/ ~FewOrders /\ loc[3].pc = "idle" /\ Stop(3)
    \/ Acquainted /\ FewOrders /\ SubmitOrderLeader(3)
    \/ \E n \in Nodes : SubmitOrderProcess(n)
    \/ \E n \in Nodes : SubmitOrderBroadcast(n)
    \/ \E s \in Nodes, f \in Nodes : LeaderOnResendRequest(s, f)
    \/ \E n \in Nodes : FollowerOnMsg(n)
    \/ \E n \in Nodes : FollowerReaderStopped(n)
    \/ \E n \in Nodes : Quiet(n) /\ ResendWindowElapses(n)
    \/ \E n \in Nodes : BeatDue /\ LeaderHeartbeat(n)
    \/ \E n \in Nodes, m \in udp : OnLeaderAlive(n, m)
    \/ \E n \in Nodes : LeaderTimeout(n) /\ LeaderSilent(n)
    \/ \E n \in Nodes, m \in udp : OnElection(n, m)
    \/ \E n \in Nodes, m \in udp : OnAnswer(n, m)
    \/ \E n \in Nodes, m \in udp : OnCoordinator(n, m)
    \/ \E n \in Nodes, k \in Threads : AnswerTimeout(n, k) /\ NoAnswerComing(n)
    \/ \E n \in Nodes, k \in Threads : PromoteToLeader(n, k)
    \/ \E n \in Nodes, k \in Threads : GotAnswer(n, k)
    \/ \E n \in Nodes, k \in Threads : GotCoordinator(n, k)
    \/ \E n \in Nodes : ListenerStore(n)
    \/ \E n \in Nodes : ElectionWindowElapses(n)
    \/ \E n \in Nodes : Acquainted /\ DiscoveryConnect(n)

\* Every thread keeps running: the heartbeat loop, the UDP listener, the
\* discovery loop, the election thread, the thread in submit_order, the
\* readers of the TCP connections, the clock.
FairHandover ==
    \A n \in Nodes :
        /\ WF_vars(BeatDue /\ LeaderHeartbeat(n))
        /\ WF_vars(\/ \E m \in udp : \/ OnLeaderAlive(n, m) \/ OnElection(n, m)
                                    \/ OnAnswer(n, m) \/ OnCoordinator(n, m)
                   \/ ListenerStore(n))
        /\ WF_vars(\/ LeaderTimeout(n) /\ LeaderSilent(n)
                   \/ Acquainted /\ DiscoveryConnect(n))
        /\ WF_vars(\E k \in Threads : \/ AnswerTimeout(n, k) /\ NoAnswerComing(n)
                                      \/ PromoteToLeader(n, k)
                                      \/ GotAnswer(n, k) \/ GotCoordinator(n, k))
        /\ WF_vars(SubmitOrderProcess(n) \/ SubmitOrderBroadcast(n))
        /\ WF_vars(\E s \in Nodes : LeaderOnResendRequest(s, n))
        /\ WF_vars(FollowerOnMsg(n) \/ FollowerReaderStopped(n))
        /\ WF_vars(Quiet(n) /\ ResendWindowElapses(n))
        /\ WF_vars(ElectionWindowElapses(n))

SpecHandover == InitFailover /\ [][NextHandover]_vars /\ FairHandover

\* A cluster of three in which the heartbeats to the nodes of OnTime arrive in
\* time, while those to node 1 may be late: its leader timeout may run out
\* with the leader alive.  The leader may stop as well.
OnTime == {2, 3}

\* No COORDINATOR is on its way to node n, and no running node is about to
\* send one.
NoCoordinatorComing(n) ==
    /\ ~\E m \in udp : m.type = "COORDINATOR" /\ m.dst = n
    /\ ~\E p \in Live \ {n}, k \in Threads : elect[p][k].pc \in {"wait_answer", "promoting"}

NextQuiet ==
    \/ Stop(3)
    \/ \E n \in Nodes : LeaderHeartbeat(n)
    \/ \E n \in Nodes, m \in udp : OnLeaderAlive(n, m)
    \/ \E n \in Nodes : LeaderTimeout(n) /\ (n \in OnTime => LeaderSilent(n))
    \/ \E n \in Nodes, m \in udp : OnElection(n, m)
    \/ \E n \in Nodes, m \in udp : OnAnswer(n, m)
    \/ \E n \in Nodes, m \in udp : OnCoordinator(n, m)
    \/ \E n \in Nodes, m \in udp : OnUnhandled(n, m)
    \/ \E m \in udp : UdpDropped(m)
    \/ \E n \in Nodes, k \in Threads : AnswerTimeout(n, k) /\ NoAnswerComing(n)
    \/ \E n \in Nodes, k \in Threads : PromoteToLeader(n, k)
    \/ \E n \in Nodes, k \in Threads : GotAnswer(n, k)
    \/ \E n \in Nodes, k \in Threads : CoordinatorTimeout(n, k) /\ NoCoordinatorComing(n)
    \/ \E n \in Nodes, k \in Threads : GotCoordinator(n, k)
    \/ \E n \in Nodes : ListenerStore(n)
    \/ \E n \in Nodes : ElectionWindowElapses(n)
    \/ \E n \in Nodes : DiscoveryAsk(n)
    \/ \E n \in Nodes, m \in udp : OnWhoIsLeader(n, m)
    \/ \E n \in Nodes, m \in udp : OnIAmLeader(n, m)
    \/ \E n \in Nodes : DiscoveryConnect(n)

SpecQuiet == InitFailover /\ [][NextQuiet]_vars

\* Nodes 2 and 3 of the cluster stop at any moment and the heartbeats to node 1
\* may be late, on a network that loses nothing; the nodes that run go through
\* their discovery loops and their elections to an end.
NextLeaderless ==
    \/ \E n \in OnTime : Stop(n)
    \/ \E n \in Nodes : LeaderHeartbeat(n)
    \/ \E n \in Nodes, m \in udp : OnLeaderAlive(n, m)
    \/ \E n \in Nodes : LeaderTimeout(n) /\ (n \in OnTime => LeaderSilent(n))
    \/ \E n \in Nodes, m \in udp : OnUnhandled(n, m)
    \/ \E n \in Nodes, m \in udp : OnElection(n, m)
    \/ \E n \in Nodes, m \in udp : OnAnswer(n, m)
    \/ \E n \in Nodes, m \in udp : OnCoordinator(n, m)
    \/ \E m \in udp : UdpDropped(m)
    \/ \E n \in Nodes, k \in Threads : AnswerTimeout(n, k) /\ NoAnswerComing(n)
    \/ \E n \in Nodes, k \in Threads : PromoteToLeader(n, k)
    \/ \E n \in Nodes, k \in Threads : GotAnswer(n, k)
    \/ \E n \in Nodes, k \in Threads : CoordinatorTimeout(n, k) /\ NoCoordinatorComing(n)
    \/ \E n \in Nodes, k \in Threads : GotCoordinator(n, k)
    \/ \E n \in Nodes : ListenerStore(n)
    \/ \E n \in Nodes : ElectionWindowElapses(n)
    \/ \E n \in Nodes : DiscoveryAsk(n)
    \/ \E n \in Nodes, m \in udp : OnWhoIsLeader(n, m)
    \/ \E n \in Nodes, m \in udp : OnIAmLeader(n, m)
    \/ \E n \in Nodes : DiscoveryConnect(n)

FairLeaderless ==
    /\ \A n \in Nodes : WF_vars(LeaderHeartbeat(n))
    /\ \A n \in Nodes : WF_vars(\E m \in udp : OnLeaderAlive(n, m))
    /\ \A n \in Nodes : WF_vars(LeaderTimeout(n) /\ LeaderSilent(n))
    /\ \A n \in Nodes : WF_vars(\E m \in udp : OnElection(n, m))
    /\ \A n \in Nodes : WF_vars(\E m \in udp : OnAnswer(n, m))
    /\ \A n \in Nodes : WF_vars(\E m \in udp : OnCoordinator(n, m))
    /\ WF_vars(\E m \in udp : UdpDropped(m))
    /\ \A n \in Nodes, k \in Threads : WF_vars(AnswerTimeout(n, k) /\ NoAnswerComing(n))
    /\ \A n \in Nodes, k \in Threads : WF_vars(PromoteToLeader(n, k))
    /\ \A n \in Nodes, k \in Threads : WF_vars(GotAnswer(n, k))
    /\ \A n \in Nodes, k \in Threads :
           WF_vars(CoordinatorTimeout(n, k) /\ NoCoordinatorComing(n))
    /\ \A n \in Nodes, k \in Threads : WF_vars(GotCoordinator(n, k))
    /\ \A n \in Nodes : WF_vars(ListenerStore(n))
    /\ \A n \in Nodes : WF_vars(ElectionWindowElapses(n))
    /\ \A n \in Nodes : WF_vars(DiscoveryAsk(n))
    /\ \A n \in Nodes : WF_vars(\E m \in udp : OnWhoIsLeader(n, m))
    /\ \A n \in Nodes : WF_vars(\E m \in udp : OnIAmLeader(n, m))
    /\ \A n \in Nodes : WF_vars(DiscoveryConnect(n))
    /\ \A n \in Nodes : WF_vars(\E m \in udp : OnUnhandled(n, m))

SpecLeaderless == InitFailover /\ [][NextLeaderless]_vars /\ FairLeaderless

\* Elections with a second thread to run one: the cluster of SpecQuiet, in
\* which a trigger that passes the guard of _safe_start_election finds a thread
\* even while an election runs.  The 2 s of the guard outlast the wait for
\* ANSWER (1.2 s), not the wait for COORDINATOR (3 s).
AnswerWaitOver(n) == \A k \in Threads : elect[n][k].pc # "wait_answer"

\* A heartbeat refreshes last_seen_ts, and the leader timeout that follows it
\* comes 3.5 s later, after the end of a wait for COORDINATOR that has begun:
\* the heartbeats this scenario lets a node in an election handle are those
\* that arrive before its ANSWER.
BeforeAnswer(n) == ~Electing(n) \/ ~answer_event[n]

NextSingleFlight ==
    \/ Stop(3)
    \/ \E n \in Nodes : LeaderHeartbeat(n)
    \/ \E n \in Nodes, m \in udp : BeforeAnswer(n) /\ OnLeaderAlive(n, m)
    \/ \E n \in Nodes : LeaderTimeoutIn(n, Threads) /\ (n \in OnTime => LeaderSilent(n))
    \/ \E n \in Nodes, m \in udp : OnElectionIn(n, m, Threads)
    \/ \E n \in Nodes, m \in udp : OnAnswer(n, m)
    \/ \E n \in Nodes, m \in udp : OnCoordinator(n, m)
    \/ \E n \in Nodes, m \in udp : OnUnhandled(n, m)
    \/ \E m \in udp : UdpDropped(m)
    \/ \E n \in Nodes, k \in Threads : AnswerTimeout(n, k) /\ NoAnswerComing(n)
    \/ \E n \in Nodes, k \in Threads : PromoteToLeader(n, k)
    \/ \E n \in Nodes, k \in Threads : GotAnswer(n, k)
    \/ \E n \in Nodes, k \in Threads : CoordinatorTimeout(n, k) /\ NoCoordinatorComing(n)
    \/ \E n \in Nodes, k \in Threads : GotCoordinator(n, k)
    \/ \E n \in Nodes : ListenerStore(n)
    \/ \E n \in Nodes : AnswerWaitOver(n) /\ ElectionWindowElapses(n)
    \/ \E n \in Nodes : DiscoveryAsk(n)
    \/ \E n \in Nodes, m \in udp : OnWhoIsLeader(n, m)
    \/ \E n \in Nodes, m \in udp : OnIAmLeader(n, m)
    \/ \E n \in Nodes : DiscoveryConnect(n)

SpecSingleFlight == InitFailover /\ [][NextSingleFlight]_vars

\* _is_better_leader on its own: every pair of a current LeaderInfo, or none,
\* and a claim, over the ids, the epochs, the values of last_seq and the
\* addresses below.
Ips == {<< 127, 0, 0, 1 >>, << 127, 0, 1, 1 >>, << 10, 0, 0, 1 >>, << 10, 0, 0, 2 >>}
Claims ==
    [leader_id : Nodes, epoch : 1..MaxEpoch, last_seq : 0..MaxSeq, leader_ip : Ips,
     last_seen_ts : {0}]

InitBetter ==
    /\ Offline
    /\ call \in [cur : Claims \cup {NoLeader}, new : Claims, ret : {FALSE}, done : {FALSE}]

NextBetter == CallIsBetterLeader

SpecBetter == InitBetter /\ [][NextBetter]_vars

\* Node 1 started as leader, and node 2 as follower, next to the established
\* leader 3, on a network that loses nothing: the probe of node 1 is answered,
\* or its window runs out first.
InitStartup == Established(3, {}) /\ lossy = FALSE

NextStartup ==
    \/ Start(1, "leader")
    \/ Start(2, "follower")
    \/ \E m \in udp : ProbeFindsLeader(1, m)
    \/ \E m \in udp : ProbeDiscards(1, m)
    \/ ProbeTimeout(1)
    \/ \E n \in Nodes, m \in udp : OnWhoIsLeader(n, m)
    \/ \E n \in Nodes : LeaderHeartbeat(n)
    \/ \E n \in Nodes, m \in udp : OnLeaderAlive(n, m)
    \/ \E n \in Nodes, m \in udp : OnUnhandled(n, m)
    \/ \E n \in Nodes : DiscoveryAsk(n)
    \/ \E n \in Nodes, m \in udp : OnIAmLeader(n, m)
    \/ \E n \in Nodes : DiscoveryConnect(n)

FairStartup ==
    /\ WF_vars(\E m \in udp : ProbeFindsLeader(1, m))
    /\ WF_vars(\E m \in udp : ProbeDiscards(1, m))
    /\ WF_vars(ProbeTimeout(1))
    /\ \A n \in Nodes : WF_vars(\E m \in udp : OnWhoIsLeader(n, m))
    /\ \A n \in Nodes : WF_vars(LeaderHeartbeat(n))
    /\ \A n \in Nodes : WF_vars(\E m \in udp : OnLeaderAlive(n, m))
    /\ \A n \in Nodes : WF_vars(\E m \in udp : OnUnhandled(n, m))
    /\ \A n \in Nodes : WF_vars(DiscoveryAsk(n))
    /\ \A n \in Nodes : WF_vars(\E m \in udp : OnIAmLeader(n, m))
    /\ \A n \in Nodes : WF_vars(DiscoveryConnect(n))

SpecStartup == InitStartup /\ [][NextStartup]_vars /\ FairStartup

\* Second instances are started next to an established cluster on a network
\* that loses nothing: the ID_TAKEN of a running first instance arrives within
\* the window, so the window ends unanswered only when the first instance has
\* stopped in the meantime.
InitDup == Established(3, {1, 2}) /\ lossy = FALSE

NextDup ==
    \/ \E n \in Nodes : StartDuplicate(n)
    \/ \E n \in Nodes : DupBindFails(n)
    \/ \E n \in Nodes : OnIdCheck(n)
    \/ \E n \in Nodes : DupRefused(n)
    \/ \E n \in Nodes : status[n] # "run" /\ DupWindowEnds(n)
    \/ \E n \in Nodes : DupInterrupt(n)
    \/ \E n \in Nodes : Stop(n)
    \/ \E n \in Nodes : LeaderHeartbeat(n)
    \/ \E n \in Nodes, m \in udp : OnLeaderAlive(n, m)
    \/ \E m \in udp : UdpDropped(m)

FairDup ==
    /\ \A n \in Nodes : WF_vars(OnIdCheck(n))
    /\ \A n \in Nodes : WF_vars(DupRefused(n))
    /\ \A n \in Nodes : WF_vars(status[n] # "run" /\ DupWindowEnds(n))
    /\ \A n \in Nodes : WF_vars(\E m \in udp : OnLeaderAlive(n, m))
    /\ WF_vars(\E m \in udp : UdpDropped(m))

SpecDup == InitDup /\ [][NextDup]_vars /\ FairDup

\* ------------------------------------------------------- claims on orders
\* The records node n handed to _deliver in its current process.
Emitted(n) == {sink[n][i] : i \in 1..Len(sink[n])}
EmittedSeqs(n) == {r.seq : r \in Emitted(n)}

\* The length of the largest contiguous prefix [1, k] of the set S of seqs.
PrefixLen(S) == CHOOSE k \in 0..MaxSeq : (1..k) \subseteq S /\ (k + 1) \notin S

\* C1: total order agreement.  Whenever two nodes have both delivered the
\* sequence number s, the records they delivered at s carry the same order_uuid.
C1_TotalOrderAgreement ==
    \A a \in Nodes, b \in Nodes :
        \A ra \in Emitted(a), rb \in Emitted(b) :
            ra.seq = rb.seq => ra.uuid = rb.uuid

\* C2: within one process lifetime a node emits a delivery for each sequence
\* number at most once and in strictly ascending order of sequence number.
C2_AscendingDelivery ==
    \A n \in Nodes :
        \A i \in 1..Len(sink[n]), j \in 1..Len(sink[n]) :
            i < j => sink[n][i].seq < sink[n][j].seq

\* C2, the case: a follower has delivered MaxOrders records and processed yet
\* another ORDER (a duplicate, which it dropped).
C2_Witness ==
    \E n \in Nodes :
        /\ role[n] = "follower"
        /\ Len(sink[n]) = MaxOrders
        /\ Len(wal[n]) = MaxOrders
        /\ expected_seq[n] = MaxOrders + 1
        /\ s2c[n] # << >>

\* C3: prefix delivery.  At every node every seq below expected_seq is in
\* delivered_seqs, and expected_seq - 1 is the length of the largest contiguous
\* prefix of the seqs the node delivered (emitted in this process or
\* recovered from its WAL).
C3_PrefixDelivery ==
    \A n \in Nodes :
        status[n] = "run" =>
            /\ (1..(expected_seq[n] - 1)) \subseteq delivered_seqs[n]
            /\ expected_seq[n] - 1 = PrefixLen(EmittedSeqs(n) \cup recovered[n])

\* C6: idempotent client retry.  However often the NEW_ORDER of one order_uuid
\* is submitted, no node holds that order_uuid under two sequence numbers and no
\* node delivers it twice.
C6_IdempotentRetry ==
    \A n \in Nodes, u \in Uuids :
        /\ Cardinality({q \in Seqs : history[n][q].uuid = u}) <= 1
        /\ Cardinality({i \in 1..Len(sink[n]) : sink[n][i].uuid = u}) <= 1

\* C7: WAL round trip.  A node that restarts recovers the expected_seq its
\* previous process ended with and every record of that process's history;
\* its last_seq is the highest seq of the WAL; no seq the previous process
\* delivered can be delivered again (it is in delivered_seqs).
C7_WalRoundTrip ==
    [][\A n \in Nodes :
        (status[n] = "off" /\ status'[n] # "off") =>
            /\ expected_seq'[n] = prev[n].expected_seq
            /\ \A q \in Seqs : prev[n].history[q] # NoRec =>
                                 history'[n][q] = prev[n].history[q]
            /\ last_seq'[n] = MaxKey(WalHistory(wal[n], EmptyMap))
            /\ prev[n].emitted \subseteq delivered_seqs'[n]]_vars

\* ---------------------------------------------------- claims on elections
\* C4: epoch monotonicity.  No step of a running node lowers its epoch.
C4_EpochMonotonic ==
    [][\A n \in Nodes :
        (status[n] = "run" /\ status'[n] = "run") => epoch'[n] >= epoch[n]]_vars

\* --------------------------------------------------- claims on order flow
\* Node n holds a record of order_uuid u in history and has delivered it.
Delivered(n, u) ==
    /\ \E q \in Seqs : history[n][q].uuid = u
    /\ \E r \in Emitted(n) : r.uuid = u

\* C9: order flow liveness.  An order submitted at a connected follower is
\* eventually in history and delivered at the leader and at every follower.
C9_OrderFlow ==
    \A u \in Uuids : (u \in client_uuids) ~> (\A n \in Live : Delivered(n, u))

\* C9, the case: an order of a follower is delivered at all three nodes.
C9_Witness ==
    /\ Live = {1, 2, 3}
    /\ \E u \in client_uuids : \A n \in Live : Delivered(n, u) /\ expected_seq[n] > 1

\* ------------------------------------------------- claims on gap recovery
\* The step in which the connected follower f receives an ORDER with a seq
\* above its expected_seq.
GapReceipt(f) ==
    /\ tcp_client[f] /\ tcp_connected[f]
    /\ FollowerOnMsg(f)
    /\ Head(s2c[f]).seq > expected_seq[f]

\* The ORDER received is in the buffer and expected_seq is where it was.
Buffers(f) ==
    /\ buffer'[f][Head(s2c[f]).seq] = Head(s2c[f])
    /\ expected_seq'[f] = expected_seq[f]

\* RESEND_REQUEST{from_seq = expected_seq} is sent to the leader.
Requests(f) == c2s'[f] = Append(c2s[f], resend_request(expected_seq[f]))

\* Follower f has no gap: it holds nothing in its buffer and expects the seq
\* after the leader's last_seq.
Closed(f) ==
    /\ Keys(buffer[f]) = {}
    /\ \A l \in Live : role[l] = "leader" => expected_seq[f] = last_seq[l] + 1

\* Every gap is closed: a follower delivers the seqs 1, 2, ... in this order
\* and without a hole, and in the end it has no gap.
GapsClose ==
    /\ [](\A f \in Nodes : \A i \in 1..Len(sink[f]) : sink[f][i].seq = i)
    /\ <>[](\A f \in Live : role[f] = "follower" => Closed(f))

Top == CHOOSE n \in Live : \A p \in Live : p <= n

\* The live node with the highest id leads with an epoch above the old
\* leader's and every other live node follows it.
FailedOver ==
    /\ role[Top] = "leader"
    /\ epoch[Top] >= 2
    /\ \A n \in Live \ {Top} : role[n] = "follower" /\ leader[n].leader_id = Top

\* C8: leader failover.  After the leader stops, the live node with the
\* highest id becomes leader with a higher epoch and the others follow it.
C8_Failover == (status[3] = "stopped") ~> FailedOver

\* ----------------------------------------------------- claims on startup
\* Two running nodes are leaders at the same epoch.
DualLeader ==
    \E a \in Nodes, b \in Nodes :
        /\ a < b
        /\ status[a] = "run" /\ status[b] = "run"
        /\ role[a] = "leader" /\ role[b] = "leader"
        /\ epoch[a] = epoch[b]

\* C5: at most one leader per epoch.  Two leaders at one epoch are a transient
\* state: the one with the lower id is stepped down.
C5_OneLeaderPerEpoch == DualLeader ~> ~DualLeader

\* Node 1, started as leader, runs as a follower.
Demoted == status[1] = "run" /\ role[1] = "follower"

\* C10: duplicate-leader demotion at startup.  A node started as leader that
\* finds the established leader runs as a follower with no TCP server and no
\* discovery socket, and comes to follow the established leader for good.
C10_StartupDemotion ==
    /\ [](Demoted => ~tcp_server[1] /\ ~udp_disc[1])
    /\ Demoted ~> [](role[1] = "follower" /\ leader[1].leader_id = 3)

\* C10, the case: node 1 was started as leader, found leader 3 and follows it.
C10_Witness ==
    /\ Demoted
    /\ status[2] = "run"
    /\ leader[1].leader_id = 3
    /\ tcp_connected[1]

\* ------------------------------------------- claims on a duplicate node id
\* The steps of the second instance of id n.
DupStep(n) == dup'[n] # dup[n]

\* C12: duplicate id refusal.  A second instance whose ID_CHECK is answered with
\* a matching ID_TAKEN within the window never starts, and its process ends
\* with a nonzero exit status; its steps leave the first instance as it is.
C12_DuplicateIdRefusal ==
    /\ [][\A n \in Nodes : DupStep(n) => UNCHANGED firstV]_vars
    /\ [][\A n \in Nodes : dup[n] = "refused" => dup'[n] # "started"]_vars
    /\ \A n \in Nodes : (dup[n] = "refused") ~> (dup[n] = "exit1")

\* ----------------------------------------------------- claims on heartbeats
\* Node n is a follower whose known leader's heartbeats keep arriving in time.
Heard(n) ==
    /\ n \in OnTime
    /\ status[n] = "run"
    /\ role[n] = "follower"
    /\ leader[n] # NoLeader
    /\ status[leader[n].leader_id] = "run"
    /\ role[leader[n].leader_id] = "leader"

\* The step starts an election thread of node n.
ElectionStarts(n) == \E k \in Threads : elect[n][k].pc = "idle" /\ elect'[n][k].pc # "idle"

\* C13 as stated: heartbeat keeps followers quiet.  A follower whose known
\* leader's heartbeats keep arriving less than LEADER_TIMEOUT apart never
\* starts an election.
C13_HeartbeatKeepsQuiet ==
    [][\A n \in Nodes : Heard(n) => ~ElectionStarts(n)]_vars

\* C13: a follower whose known leader's heartbeats keep arriving less than
\* LEADER_TIMEOUT apart starts no election on a leader timeout: it starts one
\* only when it receives an ELECTION from a node with a lower id.
C13_QuietButForElection ==
    [][\A n \in Nodes :
         Heard(n) /\ ElectionStarts(n) =>
             \E m \in udp : m.type = "ELECTION" /\ m.src < n /\ OnElection(n, m)]_vars

C13_Witness ==
    \E n \in Nodes : Heard(n) /\ Electing(n)

\* ------------------------------------------------------- claims on history
\* C14: the mapping seq -> order_uuid is never rewritten.  Once a node has
\* recorded history[seq], no later ORDER receipt or local allocation replaces
\* it with a record of the same epoch that carries a different order_uuid.
C14_HistoryNeverRewritten ==
    [][\A n \in Nodes : \A q \in Keys(history[n]) \cap Keys(history'[n]) :
           history'[n][q].epoch = history[n][q].epoch
               => history'[n][q].uuid = history[n][q].uuid]_vars

\* The step in which leader n allocates the sequence number q.
Allocates(n, q) ==
    /\ status[n] = "run" /\ role[n] = "leader"
    /\ q \notin Keys(history[n])
    /\ q \in Keys(history'[n])
    /\ history'[n][q].lid = n

\* The highest sequence number a leader of the cluster has allocated so far:
\* every allocation is in the history of its leader or in a WAL.
LastSequenced ==
    LET S == UNION {Keys(history[m]) : m \in Nodes}
             \cup UNION {{wal[m][i].seq : i \in 1..Len(wal[m])} : m \in Nodes}
    IN  IF S = {} THEN 0 ELSE CHOOSE s \in S : \A t \in S : t <= s

\* C15: sequence allocation.  Every sequence number a leader allocates equals
\* max(last_seq, max key of its history) + 1, and the numbers the leaders of
\* the cluster allocate are strictly increasing and gap-free, also across a
\* leader change: each is the one right after the last one sequenced.
C15_SequenceAllocation ==
    [][\A n \in Nodes, q \in Seqs :
           Allocates(n, q) => /\ q = Max(last_seq[n], MaxKey(history[n])) + 1
                              /\ q = LastSequenced + 1]_vars

\* --------------------------------------------- claims on leaderless followers
\* Every running node is a follower that knows no leader.
Leaderless ==
    /\ Live # {}
    /\ \A n \in Live : role[n] = "follower" /\ leader[n] = NoLeader

\* C16: a follower with no known leader whose WHO_IS_LEADER stays unanswered
\* starts an election, also after a coordinator timeout released the
\* single-flight guard: a set of live followers with no leader eventually has
\* a leader.
C16_LeaderlessFollowersElect ==
    Leaderless ~> (\E n \in Live : role[n] = "leader")

\* ------------------------------------------------ claims on single flight
\* The election threads that run on node n.
Running(n) == {k \in Threads : elect[n][k].pc # "idle"}

\* C17: single-flight election.  At any time at most one election task runs on
\* a node, and a trigger that arrives within 2 s of the start of an election
\* starts nothing.
C17_SingleFlight ==
    /\ [](\A n \in Nodes : Cardinality(Running(n)) <= 1)
    /\ [][\A n \in Nodes :
            in_election[n] /\ in_election_since[n] = 1 => ~ElectionStarts(n)]_vars

\* ------------------------------------------------- claims on leader claims
\* The step in which the listener of follower n handles an inbound leader
\* claim.
ClaimReceipt(n) ==
    /\ role[n] = "follower"
    /\ \E m \in udp : OnIAmLeader(n, m) \/ OnCoordinator(n, m)

\* C18: a follower replaces its LeaderInfo with an inbound leader claim
\* (I_AM_LEADER or COORDINATOR) only if the claim strictly beats the current
\* LeaderInfo under the better-leader predicate: a claim with a lower epoch, or
\* the same epoch and a lower leader_id, leaves its leader unchanged.
C18_BetterClaimsOnly ==
    [][\A n \in Nodes :
           ClaimReceipt(n) /\ leader'[n] # leader[n]
               => IsBetterLeader(leader[n], leader'[n])]_vars

\* ------------------------------------------ claims on the better-leader order
\* new strictly beats cur, as the predicate is specified.
Beats(cur, new) ==
    \/ cur = NoLeader
    \/ new.epoch > cur.epoch
    \/ new.epoch = cur.epoch /\ new.leader_id > cur.leader_id
    \/ /\ new.epoch = cur.epoch /\ new.leader_id = cur.leader_id
       /\ IsLoopback(cur.leader_ip) /\ ~IsLoopback(new.leader_ip)
    \/ /\ new.epoch = cur.epoch /\ new.leader_id = cur.leader_id
       /\ IsLoopback(cur.leader_ip) = IsLoopback(new.leader_ip)
       /\ new.last_seq > cur.last_seq

\* C19: _is_better_leader(new) returns true iff there is no current leader, or
\* the epoch of new is higher, or the epochs are equal and its leader_id is
\* higher, or epoch and id are equal and only the current address is loopback,
\* or epoch, id and loopback status are equal and its last_seq is higher; it
\* is a strict order: false for a claim equal to the current one, and never
\* true in both directions for two claims.
C19_IsBetterLeader ==
    call.done =>
        /\ call.ret <=> Beats(call.cur, call.new)
        /\ call.cur = call.new => ~call.ret
        /\ call.cur # NoLeader => ~(call.ret /\ IsBetterLeader(call.new, call.cur))

C19_Witness ==
    /\ call.done
    /\ call.ret
    /\ call.cur # NoLeader
    /\ call.new.epoch = call.cur.epoch
    /\ call.new.leader_id = call.cur.leader_id
    /\ IsLoopback(call.cur.leader_ip)
    /\ call.new.last_seq < call.cur.last_seq

\* ------------------------------------------- claims on heartbeat step-down
\* The heartbeat m is strictly superior to leader n: a higher epoch, or the
\* same epoch and a higher id.
Superior(m, n) ==
    /\ m.type = "LEADER_ALIVE"
    /\ m.src # n
    /\ \/ m.epoch > epoch[n]
       \/ m.epoch = epoch[n] /\ m.src > n

\* The step in which the listener of node n handles the datagram m.
Handles(n, m) == Receives(n, m) /\ m \notin udp' /\ peers'[n] = Registered(n, {m.src})

\* C20: heartbeat step-down.  A node in role leader that receives a
\* LEADER_ALIVE whose leader_id is not its own and that is strictly superior
\* (higher epoch, or same epoch and higher id) steps down to follower.
C20_HeartbeatStepDown ==
    [][\A n \in Nodes : \A m \in udp :
           role[n] = "leader" /\ Superior(m, n) /\ Handles(n, m)
               => role'[n] = "follower"]_vars

\* ------------------------------------------------ claims on election outcome
\* The election thread k of node n leaves its wait for ANSWER in this step.
LeavesAnswerWait(n, k) ==
    /\ elect[n][k].pc = "wait_answer"
    /\ elect'[n][k].pc # "wait_answer"
    /\ status'[n] = status[n]

\* The election thread k of node n leaves its wait for COORDINATOR in this step.
LeavesCoordinatorWait(n, k) ==
    /\ elect[n][k].pc = "wait_coord"
    /\ elect'[n][k].pc # "wait_coord"
    /\ status'[n] = status[n]

\* The thread ends by adopting the COORDINATOR in coordinator_msg.
Adopts(n) ==
    /\ coordinator_msg[n] # NoMsg
    /\ leader'[n] = LeaderInfo(coordinator_msg[n].src, coordinator_msg[n].epoch,
                               coordinator_msg[n].last_seq)
    /\ epoch'[n] = Max(epoch[n], coordinator_msg[n].epoch)
    /\ role'[n] = role[n]

\* The thread ends by releasing the single-flight guard, and nothing else.
OnlyReleases(n) ==
    /\ ~in_election'[n]
    /\ in_election_since'[n] = 0
    /\ role'[n] = role[n] /\ leader'[n] = leader[n] /\ epoch'[n] = epoch[n]

LowerCandidate(n, m) ==
    /\ m \in udp /\ m.type = "ELECTION" /\ m.dst = n /\ n > m.src
    /\ OnElection(n, m)

\* C22: every node that receives ELECTION{candidate_id = X} and has a local id
\* greater than X replies with ANSWER to the sender and initiates its own
\* election, whatever its current role: after the handler an election thread
\* of the node runs.
C22_HigherNodeAnswersAndElects ==
    [][\A n \in Nodes : \A m \in udp :
           LowerCandidate(n, m) => \E k \in Threads : elect'[n][k].pc # "idle"]_vars

\* ---------------------------------------------- claims on the promotion epoch
\* C23: promotion epoch.  When a node promotes itself its epoch becomes
\* max(epoch + 1, proposed_epoch), which is strictly greater than the epoch it
\* held when the election started and than every epoch it accepted from a
\* leader claim before promoting (every one of them was stored in epoch by a
\* max); the COORDINATOR it announces carries that epoch.
C23_PromotionEpoch ==
    [][\A n \in Nodes, k \in Threads :
           PromoteToLeader(n, k) =>
               /\ epoch'[n] = Max(epoch[n] + 1, elect[n][k].prop)
               /\ epoch'[n] > epoch[n]
               /\ \A m \in udp' \ udp :
                      m.type = "COORDINATOR" /\ m.src = n => m.epoch = epoch'[n]]_vars

\* ------------------------------------------- claims on role-bound resources
\* C24: role-bound resources.  A node holds the discovery-port socket and a
\* listening TCP server only while its role is leader; once a promotion has
\* completed both are held, and once a demotion has completed both are
\* released and the follower TCP client exists.
C24_RoleBoundResources ==
    \A n \in Nodes :
        status[n] = "run" =>
            /\ udp_disc[n] \/ tcp_server[n] => role[n] = "leader"
            /\ role[n] = "leader" /\ Running(n) = {} => udp_disc[n] /\ tcp_server[n]
            /\ role[n] = "follower" => tcp_client[n]

\* ------------------------------------------------ claims on the WAL
\* C25: durability before delivery.  On every node and every path, a record
\* is appended to the WAL before it is emitted to the observable sink: every
\* record of the sink is in the WAL.
C25_WalBeforeSink ==
    \A n \in Nodes : \A i \in 1..Len(sink[n]) :
        \E j \in 1..Len(wal[n]) : wal[n][j] = sink[n][i]

\* No thread of node n is inside an order handler.
Settled(n) ==
    /\ loc[n].pc = "idle"
    /\ dlv[n].pc = "idle"
    /\ \A f \in Nodes : hnd[f].srv # n

\* C26: the WAL of a node holds exactly the records the node delivered, one
\* record per delivered seq, in delivery (ascending seq) order: no record
\* appears twice and no record appears that was not delivered.  (Checked where
\* no process ends: the sink holds every delivery of the node.)
C26_WalIsDeliveries ==
    \A n \in Nodes : Settled(n) => wal[n] = sink[n]

\* ------------------------------------------ claims on the order of broadcast
\* The records leader s has sequenced and not yet broadcast: each is held by
\* the connection handler or the submit_order thread that sequenced it.
Unsent(s) ==
    {hnd[g].rec : g \in {h \in Nodes : hnd[h].srv = s /\ hnd[h].pc # "idle"}}
        \cup (IF loc[s].pc # "idle" THEN {loc[s].rec} ELSE {})

\* Follower f takes an ORDER above its expected_seq off its connection.
SeesGap(f) ==
    /\ sock[f] # NoNode /\ s2c[f] # << >>
    /\ Head(s2c[f]).seq > expected_seq[f]
    /\ FollowerOnMsg(f)

\* C27: single-connection ordering.  Over one TCP connection to one leader a
\* follower receives the leader's broadcast ORDER records in ascending seq
\* order, even when the leader handles several NEW_ORDER messages and local
\* submissions concurrently; a follower sees a gap only after a connection loss
\* or a leader change: the record it misses is never one the leader has still
\* to broadcast.
C27_SingleConnectionOrdering ==
    [][\A f \in Nodes :
           SeesGap(f) => \A q \in Unsent(sock[f]) : q.seq # expected_seq[f]]_vars

\* ------------------------------------------------ claims on the locks
\* The order in which the node mutexes may be nested.
LockOrder == << "election", "history", "delivery", "peers", "tcp" >>
Rank(l) == CHOOSE i \in 1..Len(LockOrder) : LockOrder[i] = l

\* Task t holds its node mutexes in the order of LockOrder.
InOrder(t) ==
    \A i \in 1..Len(lk[t].held) : \A j \in (i + 1)..Len(lk[t].held) :
        lk[t].held[i] \in NodeLocks /\ lk[t].held[j] \in NodeLocks =>
            /\ lk[t].held[i] # "seen_uuids" /\ lk[t].held[j] # "seen_uuids"
            /\ Rank(lk[t].held[i]) < Rank(lk[t].held[j])

\* Task t waits for a lock another task holds.
Blocked(t) ==
    /\ lk[t] # NoTask
    /\ lk[t].pc <= Len(Program[lk[t].prog])
    /\ Op(t).op = "acquire"
    /\ \E u \in Tasks : \E i \in 1..Len(lk[u].held) : lk[u].held[i] = Op(t).lock

\* Task t is about to send on a socket or to write a file.
AtInputOutput(t) ==
    /\ lk[t] # NoTask
    /\ lk[t].pc <= Len(Program[lk[t].prog])
    /\ Op(t).op \in {"send", "write"}

\* C28: lock discipline.  Node mutexes are only ever nested in the order
\* election, history, delivery, peers, tcp, so no set of tasks can deadlock on
\* them, and no task holds two locks while it performs a socket send or a
\* file write.
C28_LockDiscipline ==
    /\ \A t \in Tasks : InOrder(t)
    /\ \E t \in Tasks : ~Blocked(t)
    /\ \A t \in Tasks : AtInputOutput(t) => Len(lk[t].held) <= 1

\* ------------------------------------------------ claims on catch-up
\* Follower f is connected to the running leader s.
ConnectedTo(f, s) ==
    /\ status[f] = "run" /\ role[f] = "follower"
    /\ tcp_connected[f] /\ sock[f] = s /\ f \in clients[s]
    /\ status[s] = "run" /\ role[s] = "leader"

\* The step in which follower f connects.
Connects(f) == ~tcp_connected[f] /\ tcp_connected'[f]

\* Follower f is connected to a leader that holds orders f has not delivered.
Behind(f) ==
    \E s \in Nodes : ConnectedTo(f, s) /\ expected_seq[f] <= last_seq[s]

\* C29: catch-up on connect.  Immediately after every successful TCP connect
\* to a leader the follower sends RESEND_REQUEST{from_seq = expected_seq}, and
\* the leader answers with every history record with seq in [from_seq, max
\* history seq] in ascending order on that connection only; so a follower that
\* connects to a leader holding orders it has not delivered eventually reaches
\* expected_seq = leader's last_seq + 1.
C29_CatchUpOnConnect ==
    /\ [][\A f \in Nodes :
             Connects(f) => c2s'[f] = << resend_request(expected_seq[f]) >>]_vars
    /\ [][\A s \in Nodes, f \in Nodes :
             LeaderOnResendRequest(s, f) =>
                 /\ s2c'[f] = s2c[f] \o HistoryFrom(history[s], Head(c2s[f]).from_seq,
                                                    MaxKey(history[s]))
                 /\ \A g \in Nodes \ {f} : s2c'[g] = s2c[g]]_vars
    /\ \A f \in Nodes : Behind(f) ~> ~Behind(f)

\* ------------------------------------------- heartbeats and the leader timeout
\* LEADER_TIMEOUT (3.5 s) is the unit of the clock.
LEADER_TIMEOUT == 1

\* time.time() moves on.
Tick ==
    /\ now < MaxNow
    /\ now' = now + 1
    /\ UNCHANGED << status, starts, recovered, prev, dup, call, dlv, lk, wire, tc, leadV,
                    resV, connV, thrV, netV, elV, delivV, last_seq, history,
                    seen_order_uuids, c2s, s2c, used_uuids, client_uuids >>

\* The test of the discovery loop: the known leader was last seen more than
\* LEADER_TIMEOUT ago.
TimedOut(n) == leader[n] # NoLeader /\ now - leader[n].last_seen_ts > LEADER_TIMEOUT

\* The failure of the leader with the clock: a follower gives its leader up
\* only when last_seen_ts is older than LEADER_TIMEOUT.
NextBeat ==
    \/ Tick
    \/ Stop(3)
    \/ \E n \in Nodes : LeaderHeartbeat(n)
    \/ \E n \in Nodes, m \in udp : OnLeaderAlive(n, m)
    \/ \E n \in Nodes : TimedOut(n) /\ LeaderTimeout(n)
    \/ \E n \in Nodes, m \in udp : OnElection(n, m)
    \/ \E n \in Nodes, m \in udp : OnAnswer(n, m)
    \/ \E n \in Nodes, m \in udp : OnCoordinator(n, m)
    \/ \E n \in Nodes, k \in Threads : AnswerTimeout(n, k) /\ NoAnswerComing(n)
    \/ \E n \in Nodes, k \in Threads : PromoteToLeader(n, k)
    \/ \E n \in Nodes, k \in Threads : GotAnswer(n, k)
    \/ \E n \in Nodes, k \in Threads : GotCoordinator(n, k)
    \/ \E n \in Nodes : ListenerStore(n)
    \/ \E n \in Nodes : ElectionWindowElapses(n)
    \/ \E n \in Nodes : DiscoveryConnect(n)

SpecBeat == InitFailover /\ [][NextBeat]_vars

\* ------------------------------------------------ claims on heartbeats
\* C30: heartbeat handling at a follower.  A LEADER_ALIVE is accepted as the
\* leader when no leader is known; when a leader is known it refreshes
\* last_seen_ts, ip/tcp_port, and the max of epoch and last_seq only if its
\* leader_id equals the known leader's or its epoch is strictly higher; any
\* other LEADER_ALIVE leaves the whole LeaderInfo, including last_seen_ts,
\* unchanged, so heartbeats from another node do not keep a dead leader from
\* timing out.
C30_HeartbeatHandling ==
    [][\A n \in Nodes, m \in udp :
         (Receives(n, m) /\ m.type = "LEADER_ALIVE" /\ role[n] = "follower"
          /\ udp' = udp \ {m}) =>
             LET cur == leader[n]
                 new == leader'[n]
             IN  IF cur = NoLeader
                 THEN new = [leader_id |-> m.src, leader_ip |-> IpOf(m.src),
                             epoch |-> m.epoch, last_seq |-> m.last_seq,
                             last_seen_ts |-> now]
                 ELSE IF m.src = cur.leader_id \/ m.epoch > cur.epoch
                 THEN /\ new.last_seen_ts = now
                      /\ new.leader_ip = IpOf(m.src)
                      /\ new.epoch = Max(cur.epoch, m.epoch)
                      /\ new.last_seq = Max(cur.last_seq, m.last_seq)
                 ELSE /\ new = cur
                      /\ TimedOut(n) => TimedOut(n)']_vars

\* A follower whose LeaderInfo was refreshed by the heartbeat of another node
\* with a higher epoch (the leader_id is not the node at the address) has
\* timed that leader out while a further heartbeat of the other node reaches it.
C30_Witness ==
    \E n \in Nodes, m \in udp :
        /\ status[n] = "run" /\ role[n] = "follower"
        /\ TimedOut(n)
        /\ leader[n].leader_id # HostAt(leader[n].leader_ip)
        /\ m.type = "LEADER_ALIVE" /\ m.dst = n
        /\ m.src = HostAt(leader[n].leader_ip)
        /\ m.epoch = leader[n].epoch

\* ------------------------------------------------ claims on the LeaderInfo
\* C40: a follower's LeaderInfo is always internally consistent.  leader_id,
\* leader_ip and leader_tcp_port refer to the same node: the node whose
\* heartbeats refresh last_seen_ts is the node named by leader_id and the node
\* the follower's TCP client connects to.
C40_LeaderInfoConsistent ==
    \A n \in Nodes :
        (status[n] = "run" /\ role[n] = "follower" /\ leader[n] # NoLeader) =>
            /\ HostAt(leader[n].leader_ip) = leader[n].leader_id
            /\ tcp_connected[n] => sock[n] = leader[n].leader_id

\* ------------------------------------------------------- lines off the wire
\* A value of the field seq of a JSON object: its JSON type, and the number it
\* denotes (a float in halves, a string of digits by its number, a boolean as
\* 0 or 1).
JsonValue(t, n) == [t |-> t, n |-> n]
SeqValues ==
    {JsonValue("missing", 0), JsonValue("null", 0), JsonValue("list", 0),
     JsonValue("text", 0), JsonValue("digits", 2), JsonValue("bool", 0),
     JsonValue("bool", 1), JsonValue("float", 1), JsonValue("float", 3)}
        \cup {JsonValue("int", k) : k \in -1..2}

\* int(v) of Python: a float is truncated, a string of digits is read, a
\* boolean is 0 or 1; None, another string, a list raise.
PyInt(v) ==
    CASE v.t = "int"    -> [ok |-> TRUE, n |-> v.n]
      [] v.t = "float"  -> [ok |-> TRUE, n |-> IF v.n >= 0 THEN v.n \div 2
                                                 ELSE -((-v.n) \div 2)]
      [] v.t = "digits" -> [ok |-> TRUE, n |-> v.n]
      [] v.t = "bool"   -> [ok |-> TRUE, n |-> v.n]
      [] OTHER          -> [ok |-> FALSE, n |-> 0]

\* msg.get("seq", -1)
SeqField(ln) == IF ln.seq.t = "missing" THEN JsonValue("int", -1) ELSE ln.seq

\* The lines a sender that does not keep to the protocol writes: bytes that
\* are no JSON, a JSON object of an unknown type, an ORDER with any seq.
Line(json, type, seq) ==
    [json |-> json, type |-> type, seq |-> seq, uuid |-> NumUuids, epoch |-> 1]
Lines ==
    {Line(FALSE, "", JsonValue("missing", 0)), Line(TRUE, "NOTE", JsonValue("int", 1))}
        \cup {Line(TRUE, "ORDER", v) : v \in SeqValues}

\* A line of a foreign sender arrives on the connection of follower f.
ForeignLine(f, ln) ==
    /\ status[f] = "run"
    /\ sock[f] # NoNode
    /\ Len(wire[f]) < MaxWire
    /\ wire' = [wire EXCEPT ![f] = Append(@, ln)]
    /\ UNCHANGED << status, starts, recovered, prev, dup, call, dlv, lk, now, tc, leadV,
                    resV, connV, thrV, netV, elV, delivV, last_seq, history,
                    seen_order_uuids, c2s, s2c, used_uuids, client_uuids >>

\* read_json_lines takes the next line: json.loads and on_msg inside one try,
\* whatever they raise the line is skipped; on_msg of the follower hands an
\* ORDER to _process_order, which returns on a seq that int() refuses or that
\* is not positive.
FollowerReadsLine(f) ==
    /\ status[f] = "run"
    /\ sock[f] # NoNode
    /\ wire[f] # << >>
    /\ LET ln == Head(wire[f])
           r  == PyInt(SeqField(ln))
       IN  IF ln.json /\ ln.type = "ORDER" /\ r.ok /\ r.n > 0
           THEN ProcessOrder(f, order_msg(sock[f], ln.epoch, r.n, ln.uuid))
           ELSE UNCHANGED << delivV, last_seq, history, c2s >>
    /\ wire' = [wire EXCEPT ![f] = Tail(@)]
    /\ UNCHANGED << status, starts, recovered, prev, dup, call, dlv, lk, now, tc, leadV,
                    resV, connV, thrV, netV, elV, seen_order_uuids, s2c, used_uuids,
                    client_uuids >>

\* Orders of leader 2 to follower 1 while a foreign sender writes on the
\* connection of the follower.
NextWire ==
    \/ \E n \in OrderNodes : DiscoveryConnect(n)
    \/ \E n \in OrderNodes : FewOrders /\ SubmitOrderLeader(n)
    \/ \E n \in OrderNodes : SubmitOrderProcess(n)
    \/ \E n \in OrderNodes : SubmitOrderBroadcast(n)
    \/ \E s \in OrderNodes, f \in OrderNodes : LeaderOnResendRequest(s, f)
    \/ \E n \in OrderNodes : FollowerOnMsg(n)
    \/ \E n \in OrderNodes : ResendWindowElapses(n)
    \/ \E n \in OrderNodes, ln \in Lines : ForeignLine(n, ln)
    \/ \E n \in OrderNodes : FollowerReadsLine(n)

SpecWire == Established(2, {1}) /\ lossy = FALSE /\ [][NextWire]_vars

\* ------------------------------------------------ claims on malformed records
\* The reader of node f takes a line off its connection.
ReadsLine(f) == wire[f] # << >> /\ wire'[f] = Tail(wire[f])

\* The lines the claim calls malformed or invalid: no JSON, or an ORDER whose
\* seq is missing, is no number, or is not positive.
Malformed(ln) ==
    \/ ~ln.json
    \/ /\ ln.type = "ORDER"
       /\ \/ ln.seq.t \notin {"int", "float", "digits"}
          \/ ln.seq.n <= 0

\* C31: a malformed or invalid record is dropped without effect.  A TCP line
\* that is not valid JSON, or an ORDER whose seq is missing, non-numeric or not
\* positive, changes none of history, last_seq, expected_seq, buffer,
\* delivered_seqs or the WAL, leaves the connection open, and later valid
\* records on the same connection are still processed.
C31_MalformedDropped ==
    [][\A f \in Nodes :
         (ReadsLine(f) /\ Malformed(Head(wire[f]))) =>
             /\ history'[f] = history[f]
             /\ last_seq'[f] = last_seq[f]
             /\ expected_seq'[f] = expected_seq[f]
             /\ buffer'[f] = buffer[f]
             /\ delivered_seqs'[f] = delivered_seqs[f]
             /\ wal'[f] = wal[f]
             /\ tcp_connected'[f] = tcp_connected[f]
             /\ sock'[f] = sock[f]
             /\ s2c'[f] = s2c[f]]_vars

\* ------------------------------------------------ claims on superseded leaders
\* The records node n puts in its history, or delivers, in a step.
Recorded(n) == {history'[n][s] : s \in {t \in Seqs : history'[n][t] # history[n][t]}}
NewlyDelivered(n) ==
    {sink'[n][i] : i \in (Len(sink[n]) + 1)..Len(sink'[n])}

\* C32: a node never delivers, or records in history, an ORDER whose epoch is
\* lower than the node's own current epoch: orders sequenced by a superseded
\* leader are rejected once the node has moved to a higher epoch.
C32_NoStaleEpochOrder ==
    [][\A n \in Nodes :
         (status[n] = "run" /\ status'[n] = "run") =>
             \A r \in Recorded(n) \cup NewlyDelivered(n) : r.epoch >= epoch[n]]_vars

\* ------------------------------------------------ claims on the candidate
\* Node n, a follower, has received a COORDINATOR of another node since its
\* election began and holds the announced node as its leader.
AcceptedCoordinator(n) ==
    /\ role[n] = "follower"
    /\ coordinator_event[n]
    /\ coordinator_msg[n] # NoMsg
    /\ coordinator_msg[n].src # n
    /\ leader[n] # NoLeader
    /\ leader[n].leader_id = coordinator_msg[n].src

\* C33: a candidate that, while waiting for ANSWER in its election, receives
\* and accepts a COORDINATOR from another node does not afterwards promote
\* itself in that same election (it does not overrule the leader it just
\* accepted by announcing itself with a higher epoch).
C33_NoPromotionAfterCoordinator ==
    [][\A n \in Nodes, k \in Threads :
         (elect[n][k].pc = "wait_answer" /\ AcceptedCoordinator(n)) =>
             /\ elect'[n][k].pc # "promoting"
             /\ role'[n] # "leader"]_vars

\* ------------------------------------------------ claims on promotion
\* Node n ends its promotion in this step.
Promoted(n) ==
    \E k \in Threads : elect[n][k].pc = "promoting" /\ elect'[n][k].pc = "idle"

\* The seqs node n has handed to _deliver, after the step.
DeliveredAfter(n) == {sink'[n][i].seq : i \in 1..Len(sink'[n])}

\* C34: promotion loses no order.  When a follower is promoted to leader, every
\* record it holds in its buffer or history with seq >= expected_seq is
\* delivered locally before expected_seq moves past it, and its history has no
\* missing seq in [1, last_seq], so it can serve any RESEND_REQUEST completely;
\* no seq is marked delivered without having been delivered.
C34_PromotionLosesNoOrder ==
    [][\A n \in Nodes :
         Promoted(n) =>
             /\ \A s \in Seqs :
                    (/\ expected_seq[n] <= s /\ s < expected_seq'[n]
                     /\ (history[n][s] # NoRec \/ buffer[n][s] # NoRec))
                        => s \in DeliveredAfter(n)
             /\ \A s \in 1..last_seq'[n] : history'[n][s] # NoRec
             /\ \A s \in delivered_seqs'[n] \ delivered_seqs[n] :
                    s \in DeliveredAfter(n)]_vars

\* ------------------------------------------- submit_order against a demotion
\* submit_order, the test of the role: `if self.role == "leader"`, read
\* outside of any lock.
SubmitOrderChecksRole(n) ==
    /\ status[n] = "run"
    /\ role[n] = "leader"
    /\ loc[n].pc = "idle"
    /\ used_uuids # Uuids
    /\ loc' = [loc EXCEPT ![n] = [pc |-> "alloc", srv |-> n, rec |-> NoRec]]
    /\ UNCHANGED << procV, leadV, resV, connV, netV, elV, delivV, last_seq, history,
                    seen_order_uuids, c2s, s2c, hnd, used_uuids, client_uuids >>

\* submit_order, the section under history_lock that follows the test: a
\* fresh uuid, the next sequence number, the ORDER recorded in history.
SubmitOrderAllocates(n) ==
    /\ status[n] \in {"run", "stopped"}
    /\ loc[n].pc = "alloc"
    /\ used_uuids # Uuids
    /\ AllocSeq(n) <= MaxSeq
    /\ LET om == order_msg(n, epoch[n], AllocSeq(n), FreshUuid)
       IN  /\ last_seq' = [last_seq EXCEPT ![n] = om.seq]
           /\ history' = [history EXCEPT ![n][om.seq] = om]
           /\ loc' = [loc EXCEPT ![n] = [pc |-> "process", srv |-> n, rec |-> om]]
    /\ used_uuids' = used_uuids \cup {FreshUuid}
    /\ UNCHANGED << procV, leadV, resV, connV, netV, elV, delivV, seen_order_uuids,
                    c2s, s2c, hnd, client_uuids >>

\* The elections of SpecLeaderless while the user of node 1 submits orders
\* whenever the node is leader.
NextDemotion ==
    \/ NextLeaderless
    \/ FewOrders /\ SubmitOrderChecksRole(1)
    \/ SubmitOrderAllocates(1)
    \/ SubmitOrderProcess(1)
    \/ SubmitOrderBroadcast(1)

SpecDemotion == InitFailover /\ [][NextDemotion]_vars

\* ------------------------------------------------ claims on sequencing
\* submit_order of node n allocates a sequence number in this step.
Sequences(n) == loc[n].pc # "process" /\ loc'[n].pc = "process"

\* submit_order of node n returns in this step, its order delivered locally.
SubmitReturns(n) ==
    /\ loc[n].pc = "bcast" /\ loc'[n].pc = "idle"
    /\ \E i \in 1..Len(sink[n]) : sink[n][i] = loc[n].rec

\* C35: a node allocates a sequence number for a NEW_ORDER or a local
\* submission only while its role is leader: a NEW_ORDER handler or
\* submit_order call that runs concurrently with the node's demotion does not
\* sequence and locally deliver an order that is never broadcast.
C35_SequencesOnlyAsLeader ==
    [][\A n \in Nodes :
         /\ Sequences(n) => role[n] = "leader"
         /\ SubmitReturns(n) => tcp_server[n]]_vars

\* ------------------------------------------------ claims on deduplication
\* The NEW_ORDER handler of leader s allocates a sequence number in this step,
\* for the connection of follower f.
Allocated(s, f) == hnd[f].pc = "idle" /\ hnd'[f].pc = "process" /\ hnd'[f].srv = s

\* Node s has delivered an ORDER of uuid u that another leader sequenced.
DeliveredFromOther(s, u) ==
    \E i \in 1..Len(sink[s]) : sink[s][i].uuid = u /\ sink[s][i].lid # s

\* C36: deduplication survives a leader change.  An order_uuid that was
\* sequenced by a previous leader and delivered at the node that is now leader
\* is not assigned a second sequence number when the same NEW_ORDER is
\* resubmitted to the new leader.
C36_DedupSurvivesLeaderChange ==
    [][\A s \in Nodes, f \in Nodes :
         Allocated(s, f) => ~DeliveredFromOther(s, hnd'[f].rec.uuid)]_vars

\* ---------------------------------------------------------------------------
\* The TCPClient of one follower at the grain of its threads: the thread inside
\* _ensure_tcp_connected, the thread inside _close_tcp_client, and one reader
\* thread per connect().
\* ---------------------------------------------------------------------------

\* Every other variable of the node is left alone by a step of the client.
ClientStep(A) ==
    /\ A
    /\ UNCHANGED << status, starts, recovered, prev, dup, call, dlv, lk, now, wire,
                    leadV, resV, connV, thrV, netV, elV, delivV, last_seq, history,
                    seen_order_uuids, c2s, s2c, used_uuids, client_uuids >>

\* TCPClient.close(): closes whatever self.sock is now and forgets it.
ClientClose(c) ==
    [c EXCEPT !.closed = IF c.sock = 0 THEN @ ELSE @ \cup {c.sock}, !.sock = 0]

\* _ensure_tcp_connected up to the return of connect(): the flag is read
\* false, a new socket connects, self.sock is overwritten and a reader thread
\* is started; ok is TRUE and not stored yet.
ClientConnect ==
    /\ tc.connect = "idle"
    /\ ~tc.tcp_connected
    /\ tc.made < MaxConns
    /\ tc' = [tc EXCEPT !.made = @ + 1, !.sock = tc.made + 1,
                        !.reader[tc.made + 1] = [pc |-> "start", on |-> 0],
                        !.connect = "connected"]

\* connect() raises (nobody listens): close() and ok is FALSE, stored at once.
ClientConnectFails ==
    /\ tc.connect = "idle"
    /\ ~tc.tcp_connected
    /\ tc' = [ClientClose(tc) EXCEPT !.tcp_connected = FALSE]

\* with self.tcp_lock: self.tcp_connected = ok, after a connect() that held.
ClientStoresOk ==
    /\ tc.connect = "connected"
    /\ tc' = [tc EXCEPT !.tcp_connected = TRUE, !.connect = "idle"]

\* _reader_loop starts: the assert on self.sock sits outside the try, so with
\* self.sock None the thread dies with no cleanup; otherwise it reads on the
\* socket self.sock is at that moment.
ReaderStarts(s) ==
    /\ tc.reader[s].pc = "start"
    /\ tc' = [tc EXCEPT !.reader[s] = IF tc.sock = 0 THEN [pc |-> "dead", on |-> 0]
                                      ELSE [pc |-> "read", on |-> tc.sock]]

\* The server closes its end of connection s.
ServerEnds(s) ==
    /\ s <= tc.made
    /\ s \notin tc.ended
    /\ tc' = [tc EXCEPT !.ended = @ \cup {s}]

\* read_json_lines returns or raises (end of stream, or the socket was closed
\* under it): finally, on_log("TCP reader stopped (disconnected)") clears
\* Node.tcp_connected.
ReaderStops(s) ==
    /\ tc.reader[s].pc = "read"
    /\ tc.reader[s].on \in tc.ended \cup tc.closed
    /\ tc' = [tc EXCEPT !.tcp_connected = FALSE, !.reader[s].pc = "logged"]

\* ... and then self.close().
ReaderCloses(s) ==
    /\ tc.reader[s].pc = "logged"
    /\ tc' = [ClientClose(tc) EXCEPT !.reader[s].pc = "done"]

\* _close_tcp_client, first half: the flag is cleared under tcp_lock.
CloseClearsFlag ==
    /\ tc.closing = "idle"
    /\ tc.made > 0
    /\ tc' = [tc EXCEPT !.tcp_connected = FALSE, !.closing = "flagged"]

\* _close_tcp_client, second half: self.tcp_client.close().
CloseClosesSocket ==
    /\ tc.closing = "flagged"
    /\ tc' = [ClientClose(tc) EXCEPT !.closing = "idle"]

NextClient ==
    \/ ClientStep(ClientConnect)
    \/ ClientStep(ClientConnectFails)
    \/ ClientStep(ClientStoresOk)
    \/ \E s \in Sockets : ClientStep(ReaderStarts(s))
    \/ \E s \in Sockets : ClientStep(ServerEnds(s))
    \/ \E s \in Sockets : ClientStep(ReaderStops(s))
    \/ \E s \in Sockets : ClientStep(ReaderCloses(s))
    \/ ClientStep(CloseClearsFlag)
    \/ ClientStep(CloseClosesSocket)

\* One follower with its TCPClient, a leader that may close connections.
SpecClient == Established(2, {1}) /\ lossy = FALSE /\ [][NextClient]_vars

\* The socket of the client is not usable: none, closed here, or ended there.
SocketClosed == tc.sock = 0 \/ tc.sock \in tc.closed \cup tc.ended

\* No thread is about to touch the flag or the socket: nobody is inside
\* _ensure_tcp_connected or _close_tcp_client, and every reader thread either
\* waits on a usable socket or has ended.
ClientAtRest ==
    /\ tc.connect = "idle"
    /\ tc.closing = "idle"
    /\ \A s \in Sockets :
          \/ tc.reader[s].pc \in {"none", "done", "dead"}
          \/ tc.reader[s].pc = "read" /\ tc.reader[s].on \notin tc.ended \cup tc.closed

\* C37: tcp_connected is never left true while the socket of the client is
\* closed: once the connecting thread, the closing thread and the reader
\* threads have all finished what they were doing, a flag that is true means a
\* usable socket, so a follower that lost its connection connects again.
C37_FlagMatchesSocket == ClientAtRest /\ tc.tcp_connected => ~SocketClosed

\* C38: after stop() a node never changes role, never promotes itself and
\* never opens a TCP server or binds the discovery port, an election task in
\* progress at the time of the stop included.
C38_StoppedNodeStaysPut ==
    [][\A n \in Nodes :
          status[n] = "stopped" =>
              /\ role'[n] = role[n]
              /\ tcp_server'[n] => tcp_server[n]
              /\ udp_disc'[n] => udp_disc[n]]_vars

\* ---------------------------------------------------------------------------
\* COORDINATOR datagrams of a foreign sender
\* ---------------------------------------------------------------------------

\* The listener of node n receives a COORDINATOR that carries only its type:
\* no peer is registered (no sender id), the message is kept for the election
\* thread and the event set; lead_id is -1 and e is 1 by the defaults of
\* msg.get, so a leader does not step down (its epoch is at least 1 and -1 is
\* below every node id), while a follower closes its connection (-1 is the id
\* of no leader it knows) and takes LeaderInfo(-1, src_ip, ..., epoch 1).
OnBareCoordinator(n) ==
    /\ status[n] = "run"
    /\ lsn[n] = 0
    /\ coordinator_msg' = [coordinator_msg EXCEPT ![n] = bare_coordinator(n)]
    /\ coordinator_event' = [coordinator_event EXCEPT ![n] = TRUE]
    /\ IF role[n] = "follower"
       THEN /\ CloseTcpClient(n)
            /\ leader' = [leader EXCEPT ![n] =
                            [leader_id |-> -1, epoch |-> 1, last_seq |-> 0,
                             leader_ip |-> ForeignIp, last_seen_ts |-> now]]
            /\ ListenerStoresEpoch(n, 1)
       ELSE UNCHANGED << leader, epoch, lsn, connV, c2s, s2c >>
    /\ UNCHANGED << procV, role, resV, thrV, netV, delivV, last_seq, history,
                    seen_order_uuids, used_uuids, client_uuids, in_election,
                    in_election_since, answer_event, elect >>

NextForeign ==
    \/ NextLeaderless
    \/ OnBareCoordinator(1)

\* The cluster of SpecLeaderless with a foreign sender of COORDINATOR datagrams
\* to node 1.
SpecForeign == InitFailover /\ [][NextForeign]_vars

\* C39: every election task resets in_election when it ends, whichever way it
\* ends: in_election is never true on a node none of whose election threads
\* is running.
C39_InElectionHasTask == \A n \in Nodes : in_election[n] => Electing(n)

=============================================================================
